---- MODULE Spec2Model ----
(***************************************************************************)
(* MDloggerForCode: TaskService (collectTasksFromUris, completeTasks),     *)
(* TaskCollector (collectOpenTasksFromFiles, applyTaskCompletionToContent) *)
(* and the storage capability IFileWriter they run against (Spec);         *)
(* DailyNoteManager path resolution (ResolveSpec) and note operations      *)
(* (DnSpec); the task:complete handler of QuickCaptureSidebarProvider      *)
(* (SbSpec).                                                               *)
(*                                                                         *)
(* Text model.  A file content is the JavaScript string split on "\n": a   *)
(* non-empty sequence of lines.  A line is a sequence of tokens (strings): *)
(* "-", " ", "[ ]", "[x]", "CR" (a carriage return), words, and the tokens *)
(* of a completion tag.  The empty sequence << >> stands for "no such      *)
(* file" in the storage (a content always has at least one line).          *)
(***************************************************************************)
EXTENDS Integers, Sequences, FiniteSets, TLC

(* ------------------------------ bounds -------------------------------- *)
MaxItems == 3
MaxLineIndex == 2
MaxUris == 3

(* ------------------------------ inputs -------------------------------- *)
\* vscode.Uri values handed to the service: two notes share a base name.
UriA == [scheme |-> "file", dir |-> "/v/2025", base |-> "note.md"]
UriB == [scheme |-> "file", dir |-> "/v/2026", base |-> "note.md"]
UriC == [scheme |-> "file", dir |-> "/v/2025", base |-> "todo.md"]
Uris == {UriA, UriB, UriC}

Dates == {"2025-10-30", "2025-12-17"}

OpenMarker == <<"-", " ", "[ ]", " ">>
LnOpenA == OpenMarker \o <<"alpha">>
LnOpenB == OpenMarker \o <<"beta">>
LnOpenAIndentCR == <<" ", " ">> \o OpenMarker \o <<"alpha", " ", "CR">>
LnDoneA == <<"-", " ", "[x]", " ", "alpha">>
LnPlain == <<"intro">>
LnEmpty == << >>

NoFile == << >>
EmptyString == << LnEmpty >>

\* Storage configurations the service is started on.
Vaults ==
  { [u \in Uris |-> IF u = UriA THEN <<LnOpenA, LnOpenB, LnOpenA>>
                    ELSE IF u = UriB THEN <<LnPlain, LnOpenAIndentCR>>
                    ELSE <<LnDoneA, LnOpenB>>],
    [u \in Uris |-> IF u = UriA THEN <<LnOpenA, LnOpenA>>
                    ELSE IF u = UriB THEN <<LnOpenA>>
                    ELSE NoFile],
    [u \in Uris |-> IF u = UriA THEN <<LnPlain, LnOpenB, LnDoneA>>
                    ELSE IF u = UriB THEN EmptyString
                    ELSE <<LnOpenB, LnOpenAIndentCR, LnOpenB>>] }

(* ------------------------- sequence helpers --------------------------- *)
Range(s) == { s[i] : i \in 1..Len(s) }

SeqsUpTo(S, n) == UNION { [1..k -> S] : k \in 0..n }

RECURSIVE SumSeq(_)
SumSeq(s) == IF s = << >> THEN 0 ELSE Head(s) + SumSeq(Tail(s))

CountIn(s, x) == Cardinality({ i \in 1..Len(s) : s[i] = x })

\* Array.prototype.sort((a, b) => a - b) on numbers: ascending, stable.
RECURSIVE InsertAsc(_, _)
InsertAsc(s, x) ==
  IF s = << >> THEN <<x>>
  ELSE IF x < Head(s) THEN <<x>> \o s
  ELSE <<Head(s)>> \o InsertAsc(Tail(s), x)

RECURSIVE SortAsc(_)
SortAsc(s) == IF s = << >> THEN << >> ELSE InsertAsc(SortAsc(Tail(s)), Head(s))

(* --------------------- vscode.Uri and path helpers --------------------- *)
\* uri.toString(): scheme and full path.
UriToString(u) == <<u.scheme, u.dir, u.base>>

\* uri.fsPath: the file-system path, as its segments.
FsPath(u) == <<u.dir, u.base>>

\* path.basename(p): the last segment of the path.
Basename(p) == p[Len(p)]

(* ------------------------- NoteParser (text) --------------------------- *)
IsSpace(tok) == tok = " "

StartsWith(line, prefix) ==
  /\ Len(line) >= Len(prefix)
  /\ SubSeq(line, 1, Len(prefix)) = prefix

StripTrailingCR(line) ==
  IF Len(line) > 0 /\ line[Len(line)] = "CR"
  THEN SubSeq(line, 1, Len(line) - 1)
  ELSE line

RECURSIVE TrimStart(_)
TrimStart(line) ==
  IF line # << >> /\ IsSpace(Head(line)) THEN TrimStart(Tail(line)) ELSE line

RECURSIVE TrimEnd(_)
TrimEnd(line) ==
  IF line # << >> /\ IsSpace(line[Len(line)])
  THEN TrimEnd(SubSeq(line, 1, Len(line) - 1))
  ELSE line

Trim(line) == TrimEnd(TrimStart(line))

\* A line is an open task if, after stripping a trailing CR and leading
\* whitespace, it starts with "- [ ] ".
IsOpenTaskLine(line) == StartsWith(TrimStart(StripTrailingCR(line)), OpenMarker)

\* The text of an open task: everything after the marker, trimmed.
TaskText(line) ==
  LET body == TrimStart(StripTrailingCR(line))
  IN  Trim(SubSeq(body, Len(OpenMarker) + 1, Len(body)))

\* extractTasks(content): the open tasks with their 0-based line index in
\* the "\n"-split content.
RECURSIVE ExtractFrom(_, _)
ExtractFrom(content, i) ==
  IF i > Len(content) THEN << >>
  ELSE (IF IsOpenTaskLine(content[i])
        THEN << [text |-> TaskText(content[i]), line |-> i - 1] >>
        ELSE << >>) \o ExtractFrom(content, i + 1)

extractTasks(content) == ExtractFrom(content, 1)

CompletionTag(date) == <<" ", "[completion:", " ", date, "]">>

\* Index of the first "[ ]" token of a line, 0 if there is none.
FirstOpenBox(line) ==
  IF \E i \in 1..Len(line) : line[i] = "[ ]"
  THEN CHOOSE i \in 1..Len(line) :
         line[i] = "[ ]" /\ \A j \in 1..(i - 1) : line[j] # "[ ]"
  ELSE 0

\* The rewritten target line: "[ ]" becomes "[x]" and the completion tag is
\* appended to the line's end (before the CR of a CRLF line ending).
MarkLine(line, date) ==
  LET k == FirstOpenBox(line)
      checked == IF k = 0 THEN line ELSE [line EXCEPT ![k] = "[x]"]
      text == StripTrailingCR(checked)
  IN  text \o CompletionTag(date)
           \o (IF text = checked THEN << >> ELSE <<"CR">>)

\* markTaskCompleted(content, lineIndex, completionDate): rewrites exactly
\* the target line; fails with LineOutOfRange beyond the line count.
markTaskCompleted(content, lineIndex, date) ==
  IF lineIndex < 0 \/ lineIndex >= Len(content)
  THEN [ok |-> FALSE, content |-> content]
  ELSE [ok |-> TRUE,
        content |-> [content EXCEPT ![lineIndex + 1] = MarkLine(@, date)]]

(* --------------------------- TaskCollector ----------------------------- *)
\* Variant: files is an array and every occurrence pushes its file.
SetAddAsPush(files, file) == Append(files, file)

\* Set.prototype.add on an insertion-ordered set.
SetAdd(files, file) ==
  IF file \in Range(files) THEN files ELSE Append(files, file)

\* Index of the entry of groups keyed by text, 0 if there is none.
GroupIndex(groups, text) ==
  IF \E i \in 1..Len(groups) : groups[i].text = text
  THEN CHOOSE i \in 1..Len(groups) : groups[i].text = text
  ELSE 0

\* Variant: count is incremented only when the file is new to the group.
AddOccurrenceCountingFiles(groups, f, t) ==
  LET k == GroupIndex(groups, t.text)
      entry == IF k = 0
               THEN [text |-> t.text, count |-> 0, files |-> << >>, items |-> << >>]
               ELSE groups[k]
      next == [text |-> t.text,
               count |-> IF f.file \in Range(entry.files) THEN entry.count
                         ELSE entry.count + 1,
               files |-> SetAdd(entry.files, f.file),
               items |-> Append(entry.items,
                                [uri |-> f.uri, file |-> f.file, line |-> t.line])]
  IN  IF k = 0 THEN Append(groups, next) ELSE [groups EXCEPT ![k] = next]

\* Variant: the occurrence is put in front of the group's items.
AddOccurrencePrepending(groups, f, t) ==
  LET k == GroupIndex(groups, t.text)
      entry == IF k = 0
               THEN [text |-> t.text, count |-> 0, files |-> << >>, items |-> << >>]
               ELSE groups[k]
      next == [text |-> t.text,
               count |-> entry.count + 1,
               files |-> SetAdd(entry.files, f.file),
               items |-> <<[uri |-> f.uri, file |-> f.file, line |-> t.line]>>
                           \o entry.items]
  IN  IF k = 0 THEN Append(groups, next) ELSE [groups EXCEPT ![k] = next]

\* Variant: the item carries the 1-based line number.
AddOccurrenceOneBased(groups, f, t) ==
  LET k == GroupIndex(groups, t.text)
      entry == IF k = 0
               THEN [text |-> t.text, count |-> 0, files |-> << >>, items |-> << >>]
               ELSE groups[k]
      next == [text |-> t.text,
               count |-> entry.count + 1,
               files |-> SetAdd(entry.files, f.file),
               items |-> Append(entry.items,
                                [uri |-> f.uri, file |-> f.file, line |-> t.line + 1])]
  IN  IF k = 0 THEN Append(groups, next) ELSE [groups EXCEPT ![k] = next]

\* Body of the inner loop of collectOpenTasksFromFiles for task t of file f.
AddOccurrence(groups, f, t) ==
  LET k == GroupIndex(groups, t.text)
      entry == IF k = 0
               THEN [text |-> t.text, count |-> 0, files |-> << >>, items |-> << >>]
               ELSE groups[k]
      next == [text |-> t.text,
               count |-> entry.count + 1,
               files |-> SetAdd(entry.files, f.file),
               items |-> Append(entry.items,
                                [uri |-> f.uri, file |-> f.file, line |-> t.line])]
  IN  IF k = 0 THEN Append(groups, next) ELSE [groups EXCEPT ![k] = next]

RECURSIVE AddTasks(_, _, _)
AddTasks(groups, f, tasks) ==
  IF tasks = << >> THEN groups
  ELSE AddTasks(AddOccurrence(groups, f, Head(tasks)), f, Tail(tasks))

\* The outer loop of collectOpenTasksFromFiles over the files in order. The
\* files are taken by halves, first half first, and the groups accumulated so
\* far are evaluated (their length is taken) before the remaining files are
\* visited, as the loop does: the evaluation stays shallow for hundreds of
\* files.
RECURSIVE CollectInto(_, _)
CollectInto(groups, files) ==
  IF Len(groups) >= 0 /\ files = << >> THEN groups
  ELSE IF Len(files) = 1
  THEN AddTasks(groups, files[1], extractTasks(files[1].content))
  ELSE CollectInto(CollectInto(groups, SubSeq(files, 1, Len(files) \div 2)),
                   SubSeq(files, Len(files) \div 2 + 1, Len(files)))

collectOpenTasksFromFiles(files) == CollectInto(<< >>, files)

applyTaskCompletionToContent(content, lineIndex, date) ==
  markTaskCompleted(content, lineIndex, date)

(* ---------------------------- TaskService ------------------------------ *)
VARIABLES
  store,              \* the storage behind IFileWriter: uri -> content or NoFile
  pending,            \* storage operations issued and not yet settled
  pc,                 \* position of the running service call
  items,              \* completeTasks: the items argument
  completionDate,     \* completeTasks: the completionDate argument
  byUri,              \* completeTasks: Map key -> bucket, in insertion order
  gi,                 \* completeTasks: index of the bucket being processed
  updated,            \* completeTasks: the content handed to the pending write
  lastContent,        \* completeTasks: local lastContent
  uris,               \* collectTasksFromUris: the uris argument
  ci,                 \* collectTasksFromUris: index of the uri being read
  filesForCollector,  \* collectTasksFromUris: local filesForCollector
  outcome,            \* how the call settled: status, error, returned value
  groups,             \* collectTasksFromUris: the returned TaskGroup[]
  pre,                \* history: the storage when the call started
  log                 \* history: storage operations in the order they happened

\* DailyNoteManager path resolution (getDailyNotePath, getDailyNoteDirectory).
VARIABLES
  workspaceFolder,    \* the uri of the workspace folder handed to the manager
  vaultRoot,          \* configuration: mdlg.vaultRoot
  dailyNotePath,      \* configuration: mdlg.dailyNotePath
  isWindows,          \* the platform vscode.Uri.file and joinPath run on
  fileName,           \* the file name of the call, << >> for the directory
  resolved            \* the uri the call returned, NoUri before the call

rvVars == <<workspaceFolder, vaultRoot, dailyNotePath, isWindows, fileName, resolved>>

\* DailyNoteManager note operations (ensureDailyNoteExists, appendToSection).
VARIABLES
  dailyNote,          \* storage: the content of the daily note, NoFile if absent
  templatePath,       \* configuration: mdlg.dailyNoteTemplate
  templateFile,       \* storage: the content of the template file, NoFile if absent
  templateReadable,   \* storage: whether an existing template file can be read
  directories,        \* storage: the directories created so far
  dpc,                \* position of the running manager call
  op,                 \* the running call: operation, targetSection, content
  calls,              \* number of manager calls started
  templateContent,    \* ensureDailyNoteExists: local templateContent
  insertion,          \* appendToSection: local { newContent, line }
  result,             \* how the last call settled
  dlog,               \* history: fileWriter operations, tagged with their call
  preNote,            \* history: the daily note when the running call started
  texts,              \* history: the text each successful appendToSection read
  captured            \* history: the lines successful appendToSection calls wrote

dnVars == <<dailyNote, templatePath, templateFile, templateReadable, directories,
            dpc, op, calls, templateContent, insertion, result, dlog, preNote,
            texts, captured>>

\* QuickCaptureSidebarProvider: the handler of a task:complete message.
VARIABLES
  hasWorkspaceFolder, \* whether vscode.workspace.workspaceFolders has a folder
  dailyNoteDir,       \* what getDailyNoteDirectory(workspaceFolder) returns
  handler,            \* position of the message handler
  payload,            \* the payload of the message
  scanStart,          \* history: length of the log when the refresh scan started
  posted,             \* the messages posted to the webview
  command,            \* msg.command of the message received
  capture,            \* the content of a capture:add message
  truncated,          \* the handler's local: files.length > maxFiles
  warned,             \* how many warning messages were shown
  found               \* history: the files findFiles resolved to

sbVars == <<hasWorkspaceFolder, dailyNoteDir, handler, payload, scanStart, posted,
            command, capture, truncated, warned, found>>

\* MarkdownRenderer: the label of one WikiLink.
VARIABLES
  raw,                \* the raw text between [[ and ]] handed to getWikiLinkLabel
  label               \* token.content, NoLabel before the rule has run

\* PreviewPanelProvider: the handler of an openWikiLink message.
VARIABLES
  link,               \* message.link
  searchSubdirectories, \* configuration: mdlg.searchSubdirectories
  slugStrategy,       \* configuration: mdlg.slugStrategy
  notes,              \* storage: the locations of the files that exist
  madeDirs,           \* storage: the directories createDirectory has created
  writes,             \* history: the writeFile calls that succeeded
  opened,             \* history: the documents showTextDocument has shown
  shownErrors,        \* how many error messages were shown
  walked,             \* history: whether the vault was searched recursively
  openTarget,         \* the handler's local: found.uri or uri
  rejections,         \* history: how many awaited calls were rejected
  wpc                 \* position of the handler

wlVars == <<link, searchSubdirectories, slugStrategy, notes, madeDirs, writes,
            opened, shownErrors, walked, openTarget, rejections, wpc>>

\* PreviewPanelProvider: the panel and the subscriptions of the provider.
VARIABLES
  panel,              \* this.panel: the id of the panel, 0 for undefined
  openPanels,         \* the editor: the ids of the preview panels that exist
  disposables,        \* this.disposables: the kind of each subscription held
  editorSubs,         \* the editor: live onDidChangeActiveTextEditor subscriptions
  documentSubs,       \* the editor: live onDidChangeTextDocument subscriptions
  activeDocumentUri,  \* this.activeDocumentUri, NoDoc for undefined
  activeEditor,       \* the editor: the document of the active editor, NoDoc for none
  panelsCreated,      \* history: how many panels createWebviewPanel has made
  refreshes,          \* history: the refresh() calls of the last event that rendered
  lastEvent           \* history: the event handled last

pnVars == <<panel, openPanels, disposables, editorSubs, documentSubs,
            activeDocumentUri, activeEditor, panelsCreated, refreshes, lastEvent>>

NoDoc == ""

\* The provider has been constructed and no event has reached it.
PnIdle ==
  /\ panel = 0
  /\ openPanels = {}
  /\ disposables = << >>
  /\ editorSubs = 0
  /\ documentSubs = 0
  /\ activeDocumentUri = NoDoc
  /\ activeEditor = NoDoc
  /\ panelsCreated = 0
  /\ refreshes = 0
  /\ lastEvent = ""

pvVars == <<raw, label, wlVars, pnVars>>

\* No label has been computed.
NoLabel == <<"?">>

\* The renderer has met no WikiLink.
LabelIdle ==
  /\ raw = << >>
  /\ label = NoLabel

\* The preview has received no message.
WlIdle ==
  /\ link = << >>
  /\ searchSubdirectories = FALSE
  /\ slugStrategy = "passthrough"
  /\ notes = {}
  /\ madeDirs = {}
  /\ writes = << >>
  /\ opened = << >>
  /\ shownErrors = 0
  /\ walked = FALSE
  /\ openTarget = [scheme |-> "", authority |-> << >>, path |-> << >>]
  /\ rejections = 0
  /\ wpc = "idle"

PvIdle ==
  /\ LabelIdle
  /\ WlIdle
  /\ PnIdle

\* DailyNoteManager: appendToSection invocations that run interleaved.
VARIABLES
  invocations,        \* per invocation: position, content, locals
  templateWrites,     \* history: each template write and the note it met
  lastWrite           \* history: the invocation and kind of the latest write

ccVars == <<invocations, templateWrites, lastWrite>>

NoWrite == [call |-> 0, kind |-> ""]

\* No interleaved invocation has been started.
CcIdle ==
  /\ invocations = << >>
  /\ templateWrites = << >>
  /\ lastWrite = NoWrite

extVars == <<rvVars, dnVars, sbVars, pvVars, ccVars>>

vars == <<store, pending, pc, items, completionDate, byUri, gi, updated,
          lastContent, uris, ci, filesForCollector, outcome, groups, pre, log,
          extVars>>

ctVars == <<items, completionDate, byUri, gi, updated, lastContent>>
cuVars == <<uris, ci, filesForCollector, groups>>

ItemRefs == [uri : Uris, line : 0..MaxLineIndex]

NoOutcome == [status |-> "running", error |-> "", value |-> EmptyString]
Returned(v) == [status |-> "ok", error |-> "", value |-> v]
Thrown(e) == [status |-> "error", error |-> e, value |-> EmptyString]

ReadOp(u) == [kind |-> "read", uri |-> u, content |-> NoFile]
WriteOp(u, c) == [kind |-> "write", uri |-> u, content |-> c]
Event(e, u) == [ev |-> e, uri |-> u]

\* Index of the bucket stored under key, 0 if the Map has no such key.
BucketIndex(map, key) ==
  IF \E i \in 1..Len(map) : map[i].key = key
  THEN CHOOSE i \in 1..Len(map) : map[i].key = key
  ELSE 0

\* Variant: every item opens a bucket of its own (the Map lookup is lost).
AddToBucketUngrouped(map, item) ==
  Append(map, [key |-> UriToString(item.uri), uri |-> item.uri,
               lines |-> <<item.line>>])

\* Variant: a bucket seen again is replaced by a fresh one holding only the
\* new line.
AddToBucketReplacing(map, item) ==
  LET key == UriToString(item.uri)
      k == BucketIndex(map, key)
      next == [key |-> key, uri |-> item.uri, lines |-> <<item.line>>]
  IN  IF k = 0 THEN Append(map, next) ELSE [map EXCEPT ![k] = next]

\* Variant: a key seen again is deleted and set anew, which moves it to the
\* end of the Map's iteration order.
AddToBucketReinserting(map, item) ==
  LET key == UriToString(item.uri)
      k == BucketIndex(map, key)
      bucket == IF k = 0 THEN [key |-> key, uri |-> item.uri, lines |-> << >>]
                ELSE map[k]
      next == [bucket EXCEPT !.lines = Append(@, item.line)]
      rest == SelectSeq(map, LAMBDA b : b.key # key)
  IN  Append(rest, next)

\* Body of the grouping loop of completeTasks for one item.
AddToBucket(map, item) ==
  LET key == UriToString(item.uri)
      k == BucketIndex(map, key)
      bucket == IF k = 0 THEN [key |-> key, uri |-> item.uri, lines |-> << >>]
                ELSE map[k]
      next == [bucket EXCEPT !.lines = Append(@, item.line)]
  IN  IF k = 0 THEN Append(map, next) ELSE [map EXCEPT ![k] = next]

RECURSIVE GroupByUri(_, _)
GroupByUri(map, its) ==
  IF its = << >> THEN map
  ELSE GroupByUri(AddToBucket(map, Head(its)), Tail(its))

\* [...lines].sort((a, b) => a - b)
SortedLines(lines) == SortAsc(lines)

\* Variant: every completion is applied to the content as read, not to the
\* content updated so far.
RECURSIVE ApplyCompletionsToOriginal(_, _, _)
ApplyCompletionsToOriginal(content, lines, date) ==
  IF lines = << >> THEN [ok |-> TRUE, content |-> content]
  ELSE LET r == applyTaskCompletionToContent(content, Head(lines), date)
           rest == ApplyCompletionsToOriginal(content, Tail(lines), date)
       IN  IF ~r.ok THEN r
           ELSE IF Tail(lines) = << >> THEN r
           ELSE rest

\* Variant: a failing completion ends the loop and what was applied so far
\* is kept.
RECURSIVE ApplyCompletionsKeepingPartial(_, _, _)
ApplyCompletionsKeepingPartial(content, lines, date) ==
  IF lines = << >> THEN [ok |-> TRUE, content |-> content]
  ELSE LET r == applyTaskCompletionToContent(content, Head(lines), date)
       IN  IF r.ok THEN ApplyCompletionsKeepingPartial(r.content, Tail(lines), date)
           ELSE [ok |-> TRUE, content |-> content]

\* The inner loop of completeTasks: completions applied one after another;
\* a failing one throws out of the loop.
RECURSIVE ApplyCompletions(_, _, _)
ApplyCompletions(content, lines, date) ==
  IF lines = << >> THEN [ok |-> TRUE, content |-> content]
  ELSE LET r == applyTaskCompletionToContent(content, Head(lines), date)
       IN  IF r.ok THEN ApplyCompletions(r.content, Tail(lines), date) ELSE r

\* Variant: the write is issued and not awaited.
AwaitsWriteDropped == FALSE

\* The write of a bucket is awaited before the loop goes on.
AwaitsWrite == TRUE

\* Variant: a rejected write is caught and the loop goes on with the next
\* bucket.
OnWriteRejectedSwallowing ==
  [pc |-> "ct_loop", outcome |-> NoOutcome, skip |-> 1]

\* A rejected write is not caught in completeTasks: the call throws.
OnWriteRejected ==
  [pc |-> "done", outcome |-> Thrown("WriteFailure"), skip |-> 0]

(* ------------------- DailyNoteManager: path resolution ----------------- *)
\* A path, a vault root or a file name is a string: a sequence of tokens,
\* "/" and "\\" being the separators, ".." the parent segment, " " a blank,
\* a member of DriveLetters a letter followed by a colon, the rest names.
DriveLetters == {"c:"}

Sep == <<"/">>

WsLocal == [scheme |-> "file", authority |-> << >>, path |-> <<"/", "ws", "/", "proj">>]
WsLocalTop == [scheme |-> "file", authority |-> << >>, path |-> <<"/", "ws">>]
WsRemote == [scheme |-> "vscode-remote", authority |-> <<"host">>,
             path |-> <<"/", "ws", "/", "proj">>]
WsRemoteTop == [scheme |-> "vscode-remote", authority |-> <<"host">>,
                path |-> <<"/", "ws">>]
WorkspaceFolders == {WsLocal, WsLocalTop, WsRemote, WsRemoteTop}

VaultRoots ==
  { << >>,                                   \* not configured
    <<" ">>,                                 \* blank
    <<"vault">>,                             \* relative
    <<"..", "/", "out">>,                    \* relative, leaving the folder
    <<"/", "abs", "/", "vault">>,            \* absolute
    <<"/", "abs", "/", "vault", "/">>,       \* absolute, trailing slash
    <<"/", "/", "srv", "/", "share">>,       \* absolute, UNC
    <<"c:", "/", "vault">>,                  \* drive letter
    <<"c:", "\\", "vault", "\\", "sub">> }   \* drive letter, backslashes

DailyNotePaths == { <<"dailynotes">>, <<"notes", "/", "daily">> }

NoUri == [scheme |-> "", authority |-> << >>, path |-> << >>]

\* getDailyNoteFileName: the formatted date followed by the extension.
getDailyNoteFileName(date) == <<date, ".md">>

StartsWithSlash(s) == s # << >> /\ s[1] = "/"

\* vaultRoot.trim() === ''
IsBlank(s) == \A i \in 1..Len(s) : s[i] = " "

\* absolutePath.replace(/\\/g, '/')
ReplaceBackslashes(s) == [i \in 1..Len(s) |-> IF s[i] = "\\" THEN "/" ELSE s[i]]

\* normalized.replace(/\/+/g, '/')
RECURSIVE CollapseSlashes(_)
CollapseSlashes(s) ==
  IF Len(s) < 2 THEN s
  ELSE IF s[1] = "/" /\ s[2] = "/" THEN CollapseSlashes(Tail(s))
  ELSE <<s[1]>> \o CollapseSlashes(Tail(s))

\* Variant: the backslashes are left in place.
normalizeAbsolutePathKeepingBackslashes(absolutePath) ==
  CollapseSlashes(IF StartsWithSlash(absolutePath) THEN absolutePath
                  ELSE Sep \o absolutePath)

normalizeAbsolutePath(absolutePath) ==
  LET normalized == ReplaceBackslashes(absolutePath)
  IN  CollapseSlashes(IF StartsWithSlash(normalized) THEN normalized
                      ELSE Sep \o normalized)

\* Variant: only a leading slash makes a vault root absolute.
isAbsoluteVaultRootSlashOnly(root) == StartsWithSlash(root)

isAbsoluteVaultRoot(root) ==
  StartsWithSlash(root) \/ (root # << >> /\ root[1] \in DriveLetters)

\* The segments of a path: the strings between its "/" separators.
RECURSIVE SplitSlash(_, _)
SplitSlash(s, cur) ==
  IF s = << >> THEN <<cur>>
  ELSE IF Head(s) = "/" THEN <<cur>> \o SplitSlash(Tail(s), << >>)
  ELSE SplitSlash(Tail(s), Append(cur, Head(s)))

Segments(s) == SelectSeq(SplitSlash(s, << >>), LAMBDA seg : seg # << >>)

RECURSIVE JoinSlash(_)
JoinSlash(segs) ==
  IF segs = << >> THEN << >>
  ELSE IF Len(segs) = 1 THEN segs[1]
  ELSE segs[1] \o Sep \o JoinSlash(Tail(segs))

\* path.posix.normalize: ".." removes the segment before it (nothing at the
\* root), repeated slashes collapse, a trailing slash is kept.
RECURSIVE ResolveDots(_, _, _)
ResolveDots(stack, segs, abs) ==
  IF segs = << >> THEN stack
  ELSE IF Head(segs) = <<"..">>
       THEN IF stack # << >> /\ stack[Len(stack)] # <<"..">>
            THEN ResolveDots(SubSeq(stack, 1, Len(stack) - 1), Tail(segs), abs)
            ELSE IF abs THEN ResolveDots(stack, Tail(segs), abs)
            ELSE ResolveDots(Append(stack, Head(segs)), Tail(segs), abs)
       ELSE ResolveDots(Append(stack, Head(segs)), Tail(segs), abs)

PosixNormalize(p) ==
  LET abs == StartsWithSlash(p)
      body == JoinSlash(ResolveDots(<< >>, Segments(p), abs))
      trail == IF p # << >> /\ p[Len(p)] = "/" /\ body # << >> THEN Sep ELSE << >>
  IN  (IF abs THEN Sep ELSE << >>) \o body \o trail

\* paths.join(base, ...segments): the non-empty arguments joined with "/".
RECURSIVE JoinArgs(_)
JoinArgs(args) ==
  IF args = << >> THEN << >>
  ELSE IF Head(args) = << >> THEN JoinArgs(Tail(args))
  ELSE IF JoinArgs(Tail(args)) = << >> THEN Head(args)
  ELSE Head(args) \o Sep \o JoinArgs(Tail(args))

\* vscode.Uri.joinPath(base, ...segments): only the path changes; on Windows
\* a file uri is joined with win32 rules, "\\" being a separator too.
UriJoinPath(base, segments, win) ==
  LET args == IF win /\ base.scheme = "file"
              THEN [i \in 1..Len(segments) |-> ReplaceBackslashes(segments[i])]
              ELSE segments
  IN  [base EXCEPT !.path = PosixNormalize(JoinArgs(<<base.path>> \o args))]

\* vscode.Uri.file(path): on Windows "\\" becomes "/"; a path starting with
\* "//" gives its first segment to the authority; the path gets a leading
\* slash if it has none.
UriFile(path, win) ==
  LET p == IF win THEN ReplaceBackslashes(path) ELSE path
      unc == Len(p) >= 2 /\ p[1] = "/" /\ p[2] = "/"
      rest == IF unc THEN SubSeq(p, 3, Len(p)) ELSE p
      idx == IF \E i \in 1..Len(rest) : rest[i] = "/"
             THEN CHOOSE i \in 1..Len(rest) :
                    rest[i] = "/" /\ \A j \in 1..(i - 1) : rest[j] # "/"
             ELSE Len(rest) + 1
      auth == IF unc THEN SubSeq(rest, 1, idx - 1) ELSE << >>
      tail == IF unc THEN SubSeq(rest, idx, Len(rest)) ELSE p
  IN  [scheme |-> "file", authority |-> auth,
       path |-> IF StartsWithSlash(tail) THEN tail ELSE Sep \o tail]

\* uri.with({ path }): scheme and authority are kept.  Every workspace
\* folder of a non-file scheme has an authority, so any path with a leading
\* slash is accepted.
UriWith(base, path) == [base EXCEPT !.path = path]

\* resolveVaultUri(options); name is << >> when no fileName is given.
resolveVaultUri(folder, root, relativePath, name, win) ==
  IF root # << >> /\ ~IsBlank(root)
  THEN IF isAbsoluteVaultRoot(root)
       THEN LET fullPath == IF name # << >>
                            THEN root \o Sep \o relativePath \o Sep \o name
                            ELSE root \o Sep \o relativePath
            IN  IF folder.scheme = "file"
                THEN UriFile(fullPath, win)
                ELSE LET normalizedVaultRoot == normalizeAbsolutePath(root)
                         normalizedPath ==
                           IF name # << >>
                           THEN normalizedVaultRoot \o Sep \o relativePath \o Sep \o name
                           ELSE normalizedVaultRoot \o Sep \o relativePath
                     IN  UriWith(folder, normalizedPath)
       ELSE IF name # << >>
            THEN UriJoinPath(folder, <<root, relativePath, name>>, win)
            ELSE UriJoinPath(folder, <<root, relativePath>>, win)
  ELSE IF name # << >>
       THEN UriJoinPath(folder, <<relativePath, name>>, win)
       ELSE UriJoinPath(folder, <<relativePath>>, win)

\* Variant: the directory name is taken from the normalized path.
PosixDirnameNormalized(p) ==
  LET segs == Segments(p)
  IN  IF Len(segs) <= 1 THEN Sep
      ELSE Sep \o JoinSlash(SubSeq(segs, 1, Len(segs) - 1))

\* path.dirname(p): the path up to the last "/" that is followed by a
\* character other than "/"; no other character is touched.
PosixDirname(p) ==
  LET lastName == IF \E j \in 1..Len(p) : p[j] # "/"
                  THEN CHOOSE j \in 1..Len(p) :
                         p[j] # "/" /\ \A k \in (j + 1)..Len(p) : p[k] = "/"
                  ELSE 0
      slashes == { i \in 2..Len(p) : p[i] = "/" /\ i < lastName }
      end == CHOOSE i \in slashes : \A k \in slashes : k <= i
  IN  IF p = << >> THEN <<".">>
      ELSE IF slashes = {} THEN (IF p[1] = "/" THEN Sep ELSE <<".">>)
      ELSE IF p[1] = "/" /\ end = 2 THEN <<"/", "/">>
      ELSE SubSeq(p, 1, end - 1)

\* getParentDirectory(fileUri): fileUri.with({ path: path.dirname(path) }).
getParentDirectory(fileUri) ==
  [fileUri EXCEPT !.path = PosixDirname(fileUri.path)]

(* --------------------- NoteParser.insertIntoSection -------------------- *)
CaptureSectionName == "Quick Notes"
SectionNames == {CaptureSectionName, "Other"}

Heading(sectionHeading) == <<"##", " ", sectionHeading>>

\* A heading line of level 1 or 2 ends the body of a section.
IsBoundaryHeading(line) ==
  StartsWith(line, <<"#", " ">>) \/ StartsWith(line, <<"##", " ">>)

\* The content has a "\r\n" sequence: a line before the last ends with CR.
HasCRLF(content) ==
  \E i \in 1..(Len(content) - 1) :
    content[i] # << >> /\ content[i][Len(content[i])] = "CR"

\* The lines of the content under its line-ending style; the empty content
\* has no line.
LinesOf(content) ==
  IF content = EmptyString THEN << >>
  ELSE IF HasCRLF(content)
  THEN [i \in 1..Len(content) |->
          IF i < Len(content) THEN StripTrailingCR(content[i]) ELSE content[i]]
  ELSE content

\* The lines joined again with the line ending of the original content.
Joined(lines, crlf) ==
  IF crlf
  THEN [i \in 1..Len(lines) |-> IF i < Len(lines) THEN Append(lines[i], "CR")
                                ELSE lines[i]]
  ELSE lines

\* The index of the first line that is the heading of the section, 0 if
\* there is none.
HeadingIndex(lines, sectionHeading) ==
  LET hs == { i \in 1..Len(lines) : Trim(lines[i]) = Heading(sectionHeading) }
  IN  IF hs = {} THEN 0 ELSE CHOOSE i \in hs : \A j \in hs : i <= j

\* The index of the first heading of level <= 2 after line h, 0 if there is
\* none.
NextBoundaryIndex(lines, h) ==
  LET bs == { i \in (h + 1)..Len(lines) : IsBoundaryHeading(lines[i]) }
  IN  IF bs = {} THEN 0 ELSE CHOOSE i \in bs : \A j \in bs : i <= j

\* insertIntoSection(content, sectionHeading, lineText): the line goes before
\* the next heading of level <= 2 after the section's heading, or to the end
\* of the file; without the heading a blank line, the heading and the line
\* are appended.
insertIntoSection(content, sectionHeading, lineText) ==
  LET lines == LinesOf(content)
      h == HeadingIndex(lines, sectionHeading)
      nxt == NextBoundaryIndex(lines, h)
      at == IF nxt = 0 THEN Len(lines) + 1 ELSE nxt
  IN  IF h = 0
      THEN [newContent |-> Joined(lines \o <<LnEmpty, Heading(sectionHeading), lineText>>,
                                  HasCRLF(content)),
            line |-> Len(lines) + 2]
      ELSE [newContent |-> Joined(SubSeq(lines, 1, at - 1) \o <<lineText>>
                                    \o SubSeq(lines, at, Len(lines)),
                                  HasCRLF(content)),
            line |-> at - 1]

(* ------------------- DailyNoteManager: note operations ----------------- *)
MaxCalls == 2

Today == "2025-10-30"
TimeString == "14:30"
\* The captured content, a string: a word, and a word followed by a space.
CaptureContents == { <<"one">>, <<"two", " ">> }

\* The workspace folder and the configuration of the note operations.
DnFolder == WsLocal
DnVaultRoot == << >>
DnDailyNotePath == <<"dailynotes">>

\* getDailyNotePath(workspaceFolder, date)
DailyUri ==
  resolveVaultUri(DnFolder, DnVaultRoot, DnDailyNotePath,
                  getDailyNoteFileName(Today), FALSE)

TemplatePaths == { << >>, <<" ">>, <<"templates", "/", "daily.md">> }

\* getTemplateContent: the uri of the template file.
TemplateUri == resolveVaultUri(DnFolder, DnVaultRoot, templatePath, << >>, FALSE)

LnTitle == <<"#", " ", "Daily">>
LnQuick == Heading(CaptureSectionName)
LnOther == Heading("Other")
LnSub == <<"###", " ", "Sub">>
LnTask == OpenMarker \o <<"10:00", " ", "old">>

CR(line) == Append(line, "CR")

\* Daily notes the manager can find in the storage.
DailyNotes ==
  { NoFile,
    EmptyString,
    <<LnTitle, LnEmpty, LnQuick, LnTask>>,
    <<LnTitle, LnQuick, LnTask, LnSub, LnEmpty, LnOther, LnPlain>>,
    <<LnTitle, LnOther>>,
    <<LnQuick, LnTask, LnQuick>>,
    <<CR(LnTitle), CR(LnQuick), LnTask>>,
    <<CR(LnTitle), CR(LnQuick), CR(LnTask), LnOther>> }

TemplateFiles == { NoFile, <<LnTitle, LnEmpty, LnQuick>> }

\* `- [ ] ${timeString} -- ${content}`, "--" standing for the em dash.
LineTextWithoutCheckbox(content) == <<"-", " ", TimeString, " ", "--", " ">> \o content

LineText(content) == OpenMarker \o <<TimeString, " ", "--", " ">> \o content

DnEvent(e, u) == [call |-> calls, op |-> op.name, ev |-> e, uri |-> u]

NoResult == [status |-> "none", error |-> "", uri |-> NoUri, line |-> 0]
Resolved(u, n) == [status |-> "ok", error |-> "", uri |-> u, line |-> n]
Rejected(e) == [status |-> "error", error |-> e, uri |-> NoUri, line |-> 0]

Running == [status |-> "running", error |-> "", uri |-> NoUri, line |-> 0]

NoOp == [name |-> "", targetSection |-> "", content |-> << >>]
NoInsertion == [newContent |-> EmptyString, line |-> 0]

\* No manager call has been made.
DnIdle ==
  /\ dailyNote = NoFile
  /\ templatePath = << >>
  /\ templateFile = NoFile
  /\ templateReadable = TRUE
  /\ directories = {}
  /\ dpc = "idle"
  /\ op = NoOp
  /\ calls = 0
  /\ templateContent = EmptyString
  /\ insertion = NoInsertion
  /\ result = NoResult
  /\ dlog = << >>
  /\ preNote = dailyNote
  /\ texts = << >>
  /\ captured = << >>

(* ------------------- QuickCaptureSidebarProvider ----------------------- *)
MaxPayloadItems == 2

\* Directories getDailyNoteDirectory can resolve to: the vault, one year.
ScanDirs == {"/v", "/v/2025"}

\* msg.payload || { text: '', items: [] }; lineKinds tells for every item
\* what its line is: a number, null, or undefined.
NoPayload == [given |-> FALSE, text |-> "", items |-> << >>, lineKinds |-> << >>]

\* A capture:add message without content.
NoCapture == [given |-> FALSE, content |-> << >>]

\* The message handler has received no message.
SbIdle ==
  /\ hasWorkspaceFolder = TRUE
  /\ dailyNoteDir = "/v"
  /\ handler = "idle"
  /\ payload = NoPayload
  /\ scanStart = 0
  /\ posted = << >>
  /\ command = ""
  /\ capture = NoCapture
  /\ truncated = FALSE
  /\ warned = 0
  /\ found = << >>

\* No path has been resolved.
RvIdle ==
  /\ workspaceFolder = WsLocal
  /\ vaultRoot = << >>
  /\ dailyNotePath = <<"dailynotes">>
  /\ isWindows = FALSE
  /\ fileName = << >>
  /\ resolved = NoUri

(* ------------------------ TaskService: behaviour ----------------------- *)
Init ==
  /\ CcIdle
  /\ PvIdle
  /\ RvIdle
  /\ DnIdle
  /\ SbIdle
  /\ store \in Vaults
  /\ pending = {}
  /\ pc = "idle"
  /\ items = << >>
  /\ completionDate = ""
  /\ byUri = << >>
  /\ gi = 0
  /\ updated = EmptyString
  /\ lastContent = EmptyString
  /\ uris = << >>
  /\ ci = 0
  /\ filesForCollector = << >>
  /\ outcome = NoOutcome
  /\ groups = << >>
  /\ pre = store
  /\ log = << >>

\* completeTasks(items, completionDate) is called: the items are grouped.
CompleteTasksCall ==
  /\ pc = "idle"
  /\ \E its \in SeqsUpTo(ItemRefs, MaxItems), d \in Dates :
       /\ items' = its
       /\ completionDate' = d
       /\ byUri' = GroupByUri(<< >>, its)
  /\ gi' = 1
  /\ lastContent' = EmptyString
  /\ pc' = "ct_loop"
  /\ pre' = store
  /\ UNCHANGED <<store, pending, updated, outcome, log>>
  /\ UNCHANGED cuVars
  /\ UNCHANGED extVars

\* Head of the loop over the buckets: read the next file, or return.
CompleteTasksNext ==
  /\ pc = "ct_loop"
  /\ IF gi > Len(byUri)
     THEN /\ outcome' = Returned(lastContent)
          /\ pc' = "done"
          /\ UNCHANGED <<pending, log>>
     ELSE /\ pending' = pending \cup {ReadOp(byUri[gi].uri)}
          /\ log' = Append(log, Event("read", byUri[gi].uri))
          /\ pc' = "ct_await_read"
          /\ UNCHANGED outcome
  /\ UNCHANGED <<store, pre>>
  /\ UNCHANGED ctVars
  /\ UNCHANGED cuVars
  /\ UNCHANGED extVars

\* The read settles with the content: the completions are applied in
\* memory and the write is issued, or a completion throws.
CompleteTasksReadResolves ==
  /\ pc = "ct_await_read"
  /\ LET u == byUri[gi].uri
         r == ApplyCompletions(store[u], SortedLines(byUri[gi].lines), completionDate)
     IN  /\ ReadOp(u) \in pending
         /\ store[u] # NoFile
         /\ IF r.ok
            THEN /\ pending' = (pending \ {ReadOp(u)}) \cup {WriteOp(u, r.content)}
                 /\ log' = log \o <<Event("read_ok", u), Event("write", u)>>
                 /\ updated' = r.content
                 /\ pc' = IF AwaitsWrite THEN "ct_await_write" ELSE "ct_loop"
                 /\ gi' = IF AwaitsWrite THEN gi ELSE gi + 1
                 /\ lastContent' = IF AwaitsWrite THEN lastContent ELSE r.content
                 /\ UNCHANGED outcome
            ELSE /\ pending' = pending \ {ReadOp(u)}
                 /\ log' = Append(log, Event("read_ok", u))
                 /\ outcome' = Thrown("LineOutOfRange")
                 /\ pc' = "done"
                 /\ UNCHANGED <<updated, gi, lastContent>>
  /\ UNCHANGED <<store, pre, items, completionDate, byUri>>
  /\ UNCHANGED cuVars
  /\ UNCHANGED extVars

\* The read is rejected (no such file): completeTasks throws.
CompleteTasksReadRejects ==
  /\ pc = "ct_await_read"
  /\ LET u == byUri[gi].uri
     IN  /\ ReadOp(u) \in pending
         /\ store[u] = NoFile
         /\ pending' = pending \ {ReadOp(u)}
         /\ log' = Append(log, Event("read_fail", u))
  /\ outcome' = Thrown("NotFound")
  /\ pc' = "done"
  /\ UNCHANGED <<store, pre>>
  /\ UNCHANGED ctVars
  /\ UNCHANGED cuVars
  /\ UNCHANGED extVars

\* The storage performs a pending write; an awaiting loop goes on.
WriteResolves ==
  /\ \E w \in pending :
       /\ w.kind = "write"
       /\ store' = [store EXCEPT ![w.uri] = w.content]
       /\ pending' = pending \ {w}
       /\ log' = Append(log, Event("write_ok", w.uri))
  /\ IF pc = "ct_await_write"
     THEN /\ lastContent' = updated
          /\ gi' = gi + 1
          /\ pc' = "ct_loop"
     ELSE UNCHANGED <<lastContent, gi, pc>>
  /\ UNCHANGED <<pre, items, completionDate, byUri, updated, outcome>>
  /\ UNCHANGED cuVars
  /\ UNCHANGED extVars

\* The storage rejects a pending write; an awaiting completeTasks throws.
WriteRejects ==
  /\ \E w \in pending :
       /\ w.kind = "write"
       /\ pending' = pending \ {w}
       /\ log' = Append(log, Event("write_fail", w.uri))
  /\ IF pc = "ct_await_write"
     THEN /\ outcome' = OnWriteRejected.outcome
          /\ pc' = OnWriteRejected.pc
          /\ gi' = gi + OnWriteRejected.skip
     ELSE UNCHANGED <<outcome, pc, gi>>
  /\ UNCHANGED <<store, pre, items, completionDate, byUri, updated, lastContent>>
  /\ UNCHANGED cuVars
  /\ UNCHANGED extVars

\* collectTasksFromUris(uris) is called.
CollectCall ==
  /\ pc = "idle"
  /\ \E us \in SeqsUpTo(Uris, MaxUris) : uris' = us
  /\ ci' = 1
  /\ filesForCollector' = << >>
  /\ pc' = "cu_loop"
  /\ pre' = store
  /\ UNCHANGED <<store, pending, outcome, groups, log>>
  /\ UNCHANGED ctVars
  /\ UNCHANGED extVars

\* Head of the loop over the uris: read the next file, or collect and return.
CollectNext ==
  /\ pc = "cu_loop"
  /\ IF ci > Len(uris)
     THEN /\ groups' = collectOpenTasksFromFiles(filesForCollector)
          /\ outcome' = Returned(EmptyString)
          /\ pc' = "done"
          /\ UNCHANGED <<pending, log>>
     ELSE /\ pending' = pending \cup {ReadOp(uris[ci])}
          /\ log' = Append(log, Event("read", uris[ci]))
          /\ pc' = "cu_await_read"
          /\ UNCHANGED <<groups, outcome>>
  /\ UNCHANGED <<store, pre, uris, ci, filesForCollector>>
  /\ UNCHANGED ctVars
  /\ UNCHANGED extVars

\* The read settles with the content: the file joins filesForCollector.
CollectReadResolves ==
  /\ pc = "cu_await_read"
  /\ LET u == uris[ci]
     IN  /\ ReadOp(u) \in pending
         /\ store[u] # NoFile
         /\ pending' = pending \ {ReadOp(u)}
         /\ log' = Append(log, Event("read_ok", u))
         /\ filesForCollector' =
              Append(filesForCollector,
                     [uri |-> FsPath(u), file |-> Basename(FsPath(u)),
                      content |-> store[u]])
  /\ ci' = ci + 1
  /\ pc' = "cu_loop"
  /\ UNCHANGED <<store, pre, uris, groups, outcome>>
  /\ UNCHANGED ctVars
  /\ UNCHANGED extVars

\* The read is rejected (no such file): collectTasksFromUris throws.
CollectReadRejects ==
  /\ pc = "cu_await_read"
  /\ LET u == uris[ci]
     IN  /\ ReadOp(u) \in pending
         /\ store[u] = NoFile
         /\ pending' = pending \ {ReadOp(u)}
         /\ log' = Append(log, Event("read_fail", u))
  /\ outcome' = Thrown("NotFound")
  /\ pc' = "done"
  /\ UNCHANGED <<store, pre, uris, ci, filesForCollector, groups>>
  /\ UNCHANGED ctVars
  /\ UNCHANGED extVars

Next ==
  \/ CompleteTasksCall
  \/ CompleteTasksNext
  \/ CompleteTasksReadResolves
  \/ CompleteTasksReadRejects
  \/ WriteResolves
  \/ WriteRejects
  \/ CollectCall
  \/ CollectNext
  \/ CollectReadResolves
  \/ CollectReadRejects

Spec == Init /\ [][Next]_vars

\* No service call is running.
TaskIdle ==
  /\ store = [u \in Uris |-> NoFile]
  /\ pending = {}
  /\ pc = "idle"
  /\ items = << >>
  /\ completionDate = ""
  /\ byUri = << >>
  /\ gi = 0
  /\ updated = EmptyString
  /\ lastContent = EmptyString
  /\ uris = << >>
  /\ ci = 0
  /\ filesForCollector = << >>
  /\ outcome = NoOutcome
  /\ groups = << >>
  /\ pre = store
  /\ log = << >>

taskVars == <<store, pending, pc, items, completionDate, byUri, gi, updated,
              lastContent, uris, ci, filesForCollector, outcome, groups, pre, log>>

(* ------------------- DailyNoteManager: path resolution ----------------- *)
\* The manager is constructed on a configuration, for a workspace folder.
ResolveInit ==
  /\ CcIdle
  /\ PvIdle
  /\ TaskIdle
  /\ DnIdle
  /\ SbIdle
  /\ workspaceFolder \in WorkspaceFolders
  /\ vaultRoot \in VaultRoots
  /\ dailyNotePath \in DailyNotePaths
  /\ isWindows \in BOOLEAN
  /\ fileName = << >>
  /\ resolved = NoUri

\* getDailyNotePath(workspaceFolder, date)
GetDailyNotePath ==
  /\ resolved = NoUri
  /\ \E d \in Dates :
       /\ fileName' = getDailyNoteFileName(d)
       /\ resolved' = resolveVaultUri(workspaceFolder, vaultRoot, dailyNotePath,
                                      getDailyNoteFileName(d), isWindows)
  /\ UNCHANGED <<workspaceFolder, vaultRoot, dailyNotePath, isWindows>>
  /\ UNCHANGED <<taskVars, dnVars, sbVars, pvVars, ccVars>>

\* getDailyNoteDirectory(workspaceFolder)
GetDailyNoteDirectory ==
  /\ resolved = NoUri
  /\ fileName' = << >>
  /\ resolved' = resolveVaultUri(workspaceFolder, vaultRoot, dailyNotePath,
                                 << >>, isWindows)
  /\ UNCHANGED <<workspaceFolder, vaultRoot, dailyNotePath, isWindows>>
  /\ UNCHANGED <<taskVars, dnVars, sbVars, pvVars, ccVars>>

ResolveNext ==
  \/ GetDailyNotePath
  \/ GetDailyNoteDirectory

ResolveSpec == ResolveInit /\ [][ResolveNext]_vars

(* ------------------- DailyNoteManager: note operations ----------------- *)
\* The manager is constructed on a configuration and a storage.
\* The notes, the template configuration and the template file the manager
\* is constructed on; no manager call has been made.
DnStart ==
  /\ dailyNote \in DailyNotes
  /\ templatePath \in TemplatePaths
  /\ templateFile \in TemplateFiles
  /\ templateReadable \in BOOLEAN
  /\ directories = {}
  /\ dpc = "idle"
  /\ op = NoOp
  /\ calls = 0
  /\ templateContent = EmptyString
  /\ insertion = NoInsertion
  /\ result = NoResult
  /\ dlog = << >>
  /\ preNote = dailyNote
  /\ texts = << >>
  /\ captured = << >>

DnInit ==
  /\ CcIdle
  /\ PvIdle
  /\ TaskIdle
  /\ RvIdle
  /\ SbIdle
  /\ DnStart

dnConfig == <<templatePath, templateFile, templateReadable>>
dnFixed == <<dnConfig, preNote>>

\* Variant: the note is created whether or not it exists.
ShouldCreateAlways(exists) == TRUE

\* if (!exists) { ... }
ShouldCreate(exists) == ~exists

\* Variant: getTemplateContent lets the error of the read through.
OnTemplateReadRejectedRaising(error) == [throws |-> TRUE, content |-> EmptyString]

\* getTemplateContent: catch (error) { return ''; }
OnTemplateReadRejected(error) == [throws |-> FALSE, content |-> EmptyString]

\* ensureDailyNoteExists(workspaceFolder, date) is called.
EnsureDailyNoteExistsCall ==
  /\ dpc \in {"idle", "done"}
  /\ calls < MaxCalls
  /\ calls' = calls + 1
  /\ op' = [name |-> "ensure", targetSection |-> "", content |-> << >>]
  /\ result' = Running
  /\ dlog' = Append(dlog, [call |-> calls + 1, op |-> op'.name, ev |-> "exists",
                            uri |-> DailyUri])
  /\ dpc' = "en_exists"
  /\ preNote' = dailyNote
  /\ UNCHANGED <<dailyNote, directories, templateContent, insertion, texts, captured>>
  /\ UNCHANGED <<dnConfig, taskVars, rvVars, sbVars, pvVars, ccVars>>

\* appendToSection(workspaceFolder, content, sectionName, date) is called:
\* targetSection = sectionName || getCaptureSectionName().
AppendToSectionStarts(content, sectionName) ==
  /\ calls' = calls + 1
  /\ op' = [name |-> "append",
            targetSection |-> IF sectionName = "" THEN CaptureSectionName ELSE sectionName,
            content |-> content]
  /\ result' = Running
  /\ dlog' = Append(dlog, [call |-> calls + 1, op |-> "append", ev |-> "exists",
                           uri |-> DailyUri])
  /\ dpc' = "en_exists"
  /\ preNote' = dailyNote
  /\ UNCHANGED <<dailyNote, directories, templateContent, insertion, texts, captured>>
  /\ UNCHANGED dnConfig

AppendToSectionCall ==
  /\ dpc \in {"idle", "done"}
  /\ calls < MaxCalls
  /\ \E c \in CaptureContents, sectionName \in {""} \cup SectionNames :
       AppendToSectionStarts(c, sectionName)
  /\ UNCHANGED <<taskVars, rvVars, sbVars, pvVars, ccVars>>

\* ensureDailyNoteExists returns dailyNoteUri: the call is over, or
\* appendToSection goes on and reads the note.  The next position, result
\* and seen.
EnsureReturns(seen) ==
  IF op.name = "ensure"
  THEN [dpc |-> "done", result |-> Resolved(DailyUri, 0), dlog |-> seen]
  ELSE [dpc |-> "ap_read", result |-> Running,
        dlog |-> Append(seen, DnEvent("read", DailyUri))]

\* fileWriter.exists settles: the note is there and ensureDailyNoteExists
\* returns, or getTemplateContent runs (reading the template when one is
\* configured, else createDirectory is issued with the empty template).
ExistsResolves ==
  /\ dpc = "en_exists"
  /\ LET exists == dailyNote # NoFile
         seen == Append(dlog, DnEvent(IF exists THEN "exists_true" ELSE "exists_false",
                                     DailyUri))
     IN  IF ShouldCreate(exists)
         THEN IF templatePath = << >> \/ IsBlank(templatePath)
              THEN /\ templateContent' = EmptyString
                   /\ dlog' = Append(seen, DnEvent("createDirectory",
                                                  getParentDirectory(DailyUri)))
                   /\ dpc' = "en_mkdir"
                   /\ UNCHANGED result
              ELSE /\ dlog' = Append(seen, DnEvent("read", TemplateUri))
                   /\ dpc' = "en_template"
                   /\ UNCHANGED <<templateContent, result>>
         ELSE /\ dpc' = EnsureReturns(seen).dpc
              /\ result' = EnsureReturns(seen).result
              /\ dlog' = EnsureReturns(seen).dlog
              /\ UNCHANGED templateContent
  /\ UNCHANGED <<dailyNote, directories, op, calls, insertion, texts, captured>>
  /\ UNCHANGED <<dnFixed, taskVars, rvVars, sbVars, pvVars, ccVars>>

\* The read of the template settles with its content: createDirectory is
\* issued.
TemplateReadResolves ==
  /\ dpc = "en_template"
  /\ templateFile # NoFile
  /\ templateReadable
  /\ templateContent' = templateFile
  /\ dlog' = dlog \o <<DnEvent("read_ok", TemplateUri),
                       DnEvent("createDirectory", getParentDirectory(DailyUri))>>
  /\ dpc' = "en_mkdir"
  /\ UNCHANGED <<dailyNote, directories, op, calls, insertion, result, texts, captured>>
  /\ UNCHANGED <<dnFixed, taskVars, rvVars, sbVars, pvVars, ccVars>>

\* The read of the template is rejected: NotFound for a missing file,
\* NoPermissions for a file that cannot be read.
TemplateReadRejects ==
  /\ dpc = "en_template"
  /\ templateFile = NoFile \/ ~templateReadable
  /\ LET error == IF templateFile = NoFile THEN "NotFound" ELSE "NoPermissions"
         caught == OnTemplateReadRejected(error)
         seen == Append(dlog, DnEvent(IF templateFile = NoFile THEN "read_notfound"
                                     ELSE "read_fail", TemplateUri))
     IN  IF caught.throws
         THEN /\ result' = Rejected(error)
              /\ dlog' = seen
              /\ dpc' = "done"
              /\ UNCHANGED templateContent
         ELSE /\ templateContent' = caught.content
              /\ dlog' = Append(seen, DnEvent("createDirectory",
                                             getParentDirectory(DailyUri)))
              /\ dpc' = "en_mkdir"
              /\ UNCHANGED result
  /\ UNCHANGED <<dailyNote, directories, op, calls, insertion, texts, captured>>
  /\ UNCHANGED <<dnFixed, taskVars, rvVars, sbVars, pvVars, ccVars>>

\* createDirectory settles: the write of the template content is issued.
CreateDirectoryResolves ==
  /\ dpc = "en_mkdir"
  /\ directories' = directories \cup {getParentDirectory(DailyUri)}
  /\ dlog' = dlog \o <<DnEvent("createDirectory_ok", getParentDirectory(DailyUri)),
                       DnEvent("write", DailyUri)>>
  /\ dpc' = "en_write"
  /\ UNCHANGED <<dailyNote, op, calls, templateContent, insertion, result, texts, captured>>
  /\ UNCHANGED <<dnFixed, taskVars, rvVars, sbVars, pvVars, ccVars>>

\* createDirectory is rejected: ensureDailyNoteExists throws.
CreateDirectoryRejects ==
  /\ dpc = "en_mkdir"
  /\ dlog' = Append(dlog, DnEvent("createDirectory_fail", getParentDirectory(DailyUri)))
  /\ result' = Rejected("NoPermissions")
  /\ dpc' = "done"
  /\ UNCHANGED <<dailyNote, directories, op, calls, templateContent, insertion, texts, captured>>
  /\ UNCHANGED <<dnFixed, taskVars, rvVars, sbVars, pvVars, ccVars>>

\* Variant: the line number returned counts lines from one.
ReturnedLineOneBased(ins) == ins.line + 1

\* appendToSection: return { uri, line }, the line of insertIntoSection.
ReturnedLine(ins) == ins.line

\* A write of the note settles: after the template write
\* ensureDailyNoteExists returns; after the write of newContent
\* appendToSection returns { uri, line }.
NoteWriteResolves ==
  /\ dpc \in {"en_write", "ap_write"}
  /\ LET seen == Append(dlog, DnEvent("write_ok", DailyUri))
     IN  IF dpc = "en_write"
         THEN /\ dailyNote' = templateContent
              /\ dpc' = EnsureReturns(seen).dpc
              /\ result' = EnsureReturns(seen).result
              /\ dlog' = EnsureReturns(seen).dlog
              /\ UNCHANGED <<texts, captured>>
         ELSE /\ dailyNote' = insertion.newContent
              /\ dpc' = "done"
              /\ result' = Resolved(DailyUri, ReturnedLine(insertion))
              /\ dlog' = seen
              /\ texts' = Append(texts, dailyNote)
              /\ captured' = Append(captured,
                                    [targetSection |-> op.targetSection,
                                     lineText |-> LineText(op.content),
                                     line |-> insertion.line])
  /\ UNCHANGED <<directories, op, calls, templateContent, insertion>>
  /\ UNCHANGED <<dnFixed, taskVars, rvVars, sbVars, pvVars, ccVars>>

\* A write of the note is rejected: the call throws.
NoteWriteRejects ==
  /\ dpc \in {"en_write", "ap_write"}
  /\ dlog' = Append(dlog, DnEvent("write_fail", DailyUri))
  /\ result' = Rejected("WriteFailure")
  /\ dpc' = "done"
  /\ UNCHANGED <<dailyNote, directories, op, calls, templateContent, insertion, texts, captured>>
  /\ UNCHANGED <<dnFixed, taskVars, rvVars, sbVars, pvVars, ccVars>>

\* Variant: the line is inserted into an empty text, not the text read.
AppendInsertionIgnoringText(text, targetSection, lineText) ==
  insertIntoSection(EmptyString, targetSection, lineText)

\* Variant: with the heading present the line goes to the end of the file.
AppendInsertionAtEnd(text, targetSection, lineText) ==
  IF HeadingIndex(LinesOf(text), targetSection) = 0
  THEN insertIntoSection(text, targetSection, lineText)
  ELSE [newContent |-> Joined(LinesOf(text) \o <<lineText>>, HasCRLF(text)),
        line |-> Len(LinesOf(text))]

\* Variant: without the heading no blank line separates the new section.
AppendInsertionNoSeparator(text, targetSection, lineText) ==
  IF HeadingIndex(LinesOf(text), targetSection) # 0
  THEN insertIntoSection(text, targetSection, lineText)
  ELSE [newContent |-> Joined(LinesOf(text) \o <<Heading(targetSection), lineText>>,
                              HasCRLF(text)),
        line |-> Len(LinesOf(text)) + 1]

\* Variant: the new content is joined with "\n" whatever the text used.
AppendInsertionForcingLF(text, targetSection, lineText) ==
  LET ins == insertIntoSection(text, targetSection, lineText)
  IN  [newContent |-> [i \in 1..Len(ins.newContent) |->
                         StripTrailingCR(ins.newContent[i])],
       line |-> ins.line]

\* appendToSection: insertIntoSection(text, targetSection, lineText)
AppendInsertion(text, targetSection, lineText) ==
  insertIntoSection(text, targetSection, lineText)

\* The read of the note settles with its text: the line is inserted in
\* memory and the write of newContent is issued.
NoteReadResolves ==
  /\ dpc = "ap_read"
  /\ dailyNote # NoFile
  /\ insertion' = AppendInsertion(dailyNote, op.targetSection, LineText(op.content))
  /\ dlog' = dlog \o <<DnEvent("read_ok", DailyUri), DnEvent("write", DailyUri)>>
  /\ dpc' = "ap_write"
  /\ UNCHANGED <<dailyNote, directories, op, calls, templateContent, result, texts, captured>>
  /\ UNCHANGED <<dnFixed, taskVars, rvVars, sbVars, pvVars, ccVars>>

\* The read of the note is rejected: appendToSection throws.
NoteReadRejects ==
  /\ dpc = "ap_read"
  /\ dlog' = Append(dlog, DnEvent("read_fail", DailyUri))
  /\ result' = Rejected(IF dailyNote = NoFile THEN "NotFound" ELSE "NoPermissions")
  /\ dpc' = "done"
  /\ UNCHANGED <<dailyNote, directories, op, calls, templateContent, insertion, texts, captured>>
  /\ UNCHANGED <<dnFixed, taskVars, rvVars, sbVars, pvVars, ccVars>>

DnNext ==
  \/ EnsureDailyNoteExistsCall
  \/ AppendToSectionCall
  \/ ExistsResolves
  \/ TemplateReadResolves
  \/ TemplateReadRejects
  \/ CreateDirectoryResolves
  \/ CreateDirectoryRejects
  \/ NoteWriteResolves
  \/ NoteWriteRejects
  \/ NoteReadResolves
  \/ NoteReadRejects

DnSpec == DnInit /\ [][DnNext]_vars

(* ------------------------- history vocabulary -------------------------- *)
CtCalled == gi > 0
CuCalled == ci > 0
CtSucceeded == CtCalled /\ pc = "done" /\ outcome.status = "ok"
CtFailed == CtCalled /\ pc = "done" /\ outcome.status = "error"
CuSucceeded == CuCalled /\ pc = "done" /\ outcome.status = "ok"

CountEv(e, u) == Cardinality({ i \in 1..Len(log) : log[i] = Event(e, u) })

Targeted(u) == \E i \in 1..Len(items) : items[i].uri = u

\* How many items of the batch name line li of file u.
Mult(u, li) ==
  Cardinality({ i \in 1..Len(items) : items[i] = [uri |-> u, line |-> li] })

TargetsInRange(u) ==
  \A i \in 1..Len(items) : items[i].uri = u => items[i].line < Len(pre[u])

RECURSIVE MarkTimes(_, _, _)
MarkTimes(line, n, date) ==
  IF n = 0 THEN line ELSE MarkTimes(MarkLine(line, date), n - 1, date)

\* The content of u before the call with every targeted line completed.
Completed(u) ==
  [i \in 1..Len(pre[u]) |-> MarkTimes(pre[u][i], Mult(u, i - 1), completionDate)]

\* The distinct uris of a batch in the order in which they first appear.
RECURSIVE FirstSeen(_, _)
FirstSeen(seen, its) ==
  IF its = << >> THEN seen
  ELSE FirstSeen(IF Head(its).uri \in Range(seen) THEN seen
                 ELSE Append(seen, Head(its).uri),
                 Tail(its))

\* The uris of the log's events of kind e, in order.
RECURSIVE UrisOf(_, _)
UrisOf(e, l) ==
  IF l = << >> THEN << >>
  ELSE (IF Head(l).ev = e THEN <<Head(l).uri>> ELSE << >>) \o UrisOf(e, Tail(l))

Perms(s) ==
  { [i \in 1..Len(s) |-> s[f[i]]] :
      f \in { g \in [1..Len(s) -> 1..Len(s)] :
                \A a, b \in 1..Len(s) : a # b => g[a] # g[b] } }

\* The storage completeTasks(its, date) leaves behind when started on
\* storage st and no write is rejected: the loop over the buckets, which
\* ends at the first read or completion that throws.
RECURSIVE StoreAfterBuckets(_, _, _)
StoreAfterBuckets(map, st, date) ==
  IF map = << >> THEN st
  ELSE LET b == Head(map)
           r == ApplyCompletions(st[b.uri], SortedLines(b.lines), date)
       IN  IF st[b.uri] = NoFile \/ ~r.ok THEN st
           ELSE StoreAfterBuckets(Tail(map), [st EXCEPT ![b.uri] = r.content], date)

StoreAfterCompleteTasks(its, st, date) ==
  StoreAfterBuckets(GroupByUri(<< >>, its), st, date)

(* ------------------------------- claims -------------------------------- *)

\* C1: a completeTasks call that completes without error has issued exactly
\* one read and exactly one write for each distinct file named in items,
\* however many items name it, and none for any other file.
C1_OneReadOneWritePerFile ==
  CtSucceeded =>
    \A u \in Uris :
      LET n == IF Targeted(u) THEN 1 ELSE 0
      IN  /\ CountEv("read", u) = n
          /\ CountEv("write", u) = n
          /\ CountEv("write_ok", u) = n

\* C1 witness: a successful call whose items name one file several times
\* and leave another file unnamed.
C1_Witness ==
  /\ CtSucceeded
  /\ \E i, j \in 1..Len(items) : i # j /\ items[i].uri = items[j].uri
  /\ \E u \in Uris : ~Targeted(u) /\ store[u] # NoFile

\* C2: after a successful completeTasks every targeted line of every
\* targeted file has "[ ]" changed to "[x]" and the completion tag appended
\* (once per item that names it), every other line is identical to what it
\* was before the call, the line count of every file is unchanged, and files
\* not named in items are unchanged.
C2_OnlyTargetedLinesRewritten ==
  CtSucceeded =>
    \A u \in Uris :
      IF Targeted(u)
      THEN /\ Len(store[u]) = Len(pre[u])
           /\ \A i \in 1..Len(pre[u]) :
                IF Mult(u, i - 1) > 0
                THEN store[u][i] = MarkTimes(pre[u][i], Mult(u, i - 1), completionDate)
                ELSE store[u][i] = pre[u][i]
      ELSE store[u] = pre[u]

\* C2 witness: a successful call that targeted two lines of a file holding
\* a third, untargeted line, with another file left unnamed.
C2_Witness ==
  /\ CtSucceeded
  /\ \E u \in Uris :
       /\ \E a, b \in 0..MaxLineIndex : a # b /\ Mult(u, a) = 1 /\ Mult(u, b) = 1
       /\ \E c \in 1..Len(pre[u]) : Mult(u, c - 1) = 0
       /\ store[u] # pre[u]
  /\ \E v \in Uris : ~Targeted(v) /\ pre[v] # NoFile

\* C3: at every point of a completeTasks call, and after it failed, every
\* file is stored either as it was before the call or with all of its
\* targeted lines completed, never with only some of them completed.
C3_NoPartiallyCompletedFile ==
  CtCalled =>
    \A u \in Uris :
      \/ store[u] = pre[u]
      \/ /\ Targeted(u)
         /\ TargetsInRange(u)
         /\ store[u] = Completed(u)

\* C3 witness: a failed call that had already written one file completely
\* and left a file with several targeted lines as it was.
C3_Witness ==
  /\ CtFailed
  /\ \E u \in Uris : store[u] # pre[u]
  /\ \E v \in Uris :
       /\ \E i, j \in 1..Len(items) :
            i # j /\ items[i].uri = v /\ items[j].uri = v
                  /\ items[i].line # items[j].line
       /\ store[v] = pre[v]
       /\ pre[v] # NoFile

C5_StorageOperationsSequential ==
  CtCalled =>
    /\ Cardinality(pending) <= 1
    /\ \A i \in 1..Len(log) :
         /\ log[i].ev = "read" =>
              /\ i > 1 => log[i - 1].ev = "write_ok"
              /\ IF i = Len(log) THEN ReadOp(log[i].uri) \in pending
                 ELSE log[i + 1] \in {Event("read_ok", log[i].uri),
                                      Event("read_fail", log[i].uri)}
         /\ log[i].ev = "write" =>
              /\ i > 1 /\ log[i - 1] = Event("read_ok", log[i].uri)
              /\ IF i = Len(log)
                 THEN \E w \in pending : w.kind = "write" /\ w.uri = log[i].uri
                 ELSE log[i + 1] \in {Event("write_ok", log[i].uri),
                                      Event("write_fail", log[i].uri)}

\* C5 witness: the second file's read is outstanding after the first
\* file's read and write have completed.
C5_Witness ==
  /\ CtCalled
  /\ pc = "ct_await_read"
  /\ gi = 2
  /\ Len(log) = 5
  /\ Cardinality(pending) = 1

\* C6: when the storage rejects a write during completeTasks the call
\* fails with that failure, the write is not issued again, and no read or
\* write is issued for any later file: the rejection is the last storage
\* event of the call.
C6_WriteFailureSurfacedNotRetried ==
  CtCalled =>
    \A i \in 1..Len(log) :
      log[i].ev = "write_fail" =>
        /\ i = Len(log)
        /\ pending = {}
        /\ pc = "done"
        /\ outcome.status = "error"
        /\ outcome.error = "WriteFailure"
        /\ CountEv("write", log[i].uri) = 1
        /\ store[log[i].uri] = pre[log[i].uri]

\* C6 witness: a write was rejected while a later file was still to be
\* processed.
C6_Witness ==
  /\ CtFailed
  /\ outcome.error = "WriteFailure"
  /\ gi < Len(byUri)
  /\ log[Len(log)].ev = "write_fail"

\* C7: for a non-empty batch a successful completeTasks returns the updated
\* content of the last file processed, files being processed in the order
\* in which they first appear in items; the returned content is what was
\* written to that file.
C7_ReturnsLastGroupContent ==
  (CtSucceeded /\ items # << >>) =>
    LET order == FirstSeen(<< >>, items)
        last == order[Len(order)]
    IN  /\ UrisOf("read", log) = order
        /\ UrisOf("write", log) = order
        /\ outcome.value = updated
        /\ outcome.value = store[last]
        /\ last = byUri[Len(byUri)].uri

\* C7 witness: a successful call whose last item does not name the last
\* file processed.
C7_Witness ==
  /\ CtSucceeded
  /\ Len(items) >= 3
  /\ Len(byUri) >= 2
  /\ items[Len(items)].uri # byUri[Len(byUri)].uri
  /\ outcome.value # pre[byUri[Len(byUri)].uri]

\* The open-task occurrences extracted from the files handed to the
\* collector: (index of the file in the input, index of the task in it).
Occurrences ==
  UNION { { <<k, j>> : j \in 1..Len(extractTasks(filesForCollector[k].content)) } :
            k \in 1..Len(filesForCollector) }

OccText(o) == extractTasks(filesForCollector[o[1]].content)[o[2]].text

OccRef(o) ==
  [uri |-> filesForCollector[o[1]].uri,
   file |-> filesForCollector[o[1]].file,
   line |-> extractTasks(filesForCollector[o[1]].content)[o[2]].line]

\* C8: every group returned by the collector has count = length(items); the
\* counts of all groups add up to the number of open-task occurrences
\* extracted from all files; and every occurrence is in exactly one group,
\* the one whose text is the occurrence's text.
C8_CountIsNumberOfOccurrences ==
  CuSucceeded =>
    /\ \A g \in 1..Len(groups) : groups[g].count = Len(groups[g].items)
    /\ SumSeq([g \in 1..Len(groups) |-> groups[g].count]) = Cardinality(Occurrences)
    /\ \A g, h \in 1..Len(groups) : groups[g].text = groups[h].text => g = h
    /\ \A o \in Occurrences : \E g \in 1..Len(groups) : groups[g].text = OccText(o)
    /\ \A g \in 1..Len(groups) :
         /\ Len(groups[g].items) > 0
         /\ \A r \in Range(groups[g].items) :
              CountIn(groups[g].items, r) =
                Cardinality({ o \in Occurrences :
                                OccText(o) = groups[g].text /\ OccRef(o) = r })

\* C8 witness: a group counting three occurrences that come from two files,
\* next to a group of another text.
C8_Witness ==
  /\ CuSucceeded
  /\ Len(groups) >= 2
  /\ \E g \in 1..Len(groups) :
       /\ groups[g].count = 3
       /\ Cardinality({ groups[g].items[i].uri : i \in 1..3 }) = 2

\* C9: in every group returned by the collector files has no repeated
\* entry, also when one file contributes several occurrences of the text,
\* while items holds one entry per occurrence.
C9_FilesHasNoRepeatedEntry ==
  CuSucceeded =>
    \A g \in 1..Len(groups) :
      /\ \A a, b \in 1..Len(groups[g].files) :
           groups[g].files[a] = groups[g].files[b] => a = b
      /\ Range(groups[g].files) =
           { groups[g].items[i].file : i \in 1..Len(groups[g].items) }
      /\ Len(groups[g].items) =
           Cardinality({ o \in Occurrences : OccText(o) = groups[g].text })

\* C9 witness: a group with two occurrences from one file and one files
\* entry.
C9_Witness ==
  /\ CuSucceeded
  /\ Len(uris) = 1
  /\ \E g \in 1..Len(groups) :
       /\ Len(groups[g].items) = 2
       /\ groups[g].items[1].line # groups[g].items[2].line
       /\ Len(groups[g].files) = 1

\* C10: in every group returned by collectTasksFromUris files has exactly
\* one entry per distinct source file contributing to the group: as many
\* entries as there are distinct file locations among the group's items.
C10_FilesOneEntryPerSourceFile ==
  CuSucceeded =>
    \A g \in 1..Len(groups) :
      Len(groups[g].files) =
        Cardinality({ groups[g].items[i].uri : i \in 1..Len(groups[g].items) })


\* The occurrences in scanning order: files in input order, and within a
\* file in the order of the extraction.
RECURSIVE OccsFrom(_, _)
OccsFrom(k, j) ==
  IF k > Len(filesForCollector) THEN << >>
  ELSE IF j > Len(extractTasks(filesForCollector[k].content)) THEN OccsFrom(k + 1, 1)
  ELSE << <<k, j>> >> \o OccsFrom(k, j + 1)

OccsInOrder == OccsFrom(1, 1)

\* The distinct texts of a sequence of occurrences, in first-seen order.
RECURSIVE FirstSeenTexts(_, _)
FirstSeenTexts(seen, occs) ==
  IF occs = << >> THEN seen
  ELSE FirstSeenTexts(IF OccText(Head(occs)) \in Range(seen) THEN seen
                       ELSE Append(seen, OccText(Head(occs))),
                       Tail(occs))

\* The item references of the occurrences of one text, in scanning order.
RECURSIVE RefsOfText(_, _)
RefsOfText(text, occs) ==
  IF occs = << >> THEN << >>
  ELSE (IF OccText(Head(occs)) = text THEN <<OccRef(Head(occs))>> ELSE << >>)
         \o RefsOfText(text, Tail(occs))

\* C11: the collector's output is ordered: the groups come in the order in
\* which their text was first seen while scanning the files in input order,
\* and the items of a group come in input file order and, within a file, in
\* ascending line order.
C11_OutputInFirstSeenOrder ==
  CuSucceeded =>
    /\ [g \in 1..Len(groups) |-> groups[g].text] = FirstSeenTexts(<< >>, OccsInOrder)
    /\ \A g \in 1..Len(groups) :
         groups[g].items = RefsOfText(groups[g].text, OccsInOrder)
    /\ \A k \in 1..Len(filesForCollector) :
         LET ts == extractTasks(filesForCollector[k].content)
         IN  \A a, b \in 1..Len(ts) : a < b => ts[a].line < ts[b].line

\* C11 witness: two groups, the first seen one holding items of two lines of
\* the first file followed by an item of the second file, with the other
\* text seen in between.
C11_Witness ==
  /\ CuSucceeded
  /\ Len(groups) = 2
  /\ Len(groups[1].items) = 3
  /\ groups[1].items[1].uri = groups[1].items[2].uri
  /\ groups[1].items[1].line < groups[2].items[1].line
  /\ groups[2].items[1].line < groups[1].items[2].line
  /\ groups[1].items[3].uri # groups[1].items[1].uri

\* The uri handed to the service whose fsPath an item carries.
UriOfItem(it) == CHOOSE u \in Uris : FsPath(u) = it.uri

\* C12: only open tasks are collected: every item of every group refers to
\* a line of its file (0-based index in the "\n"-split content) that, after
\* stripping a trailing CR and leading whitespace, starts with "- [ ] " and
\* whose trimmed remainder is the group's text; no item refers to a line
\* beginning "- [x]".
C12_OnlyOpenTasksCollected ==
  CuSucceeded =>
    \A g \in 1..Len(groups) :
      \A i \in 1..Len(groups[g].items) :
        LET it == groups[g].items[i]
            content == store[UriOfItem(it)]
            bare == TrimStart(StripTrailingCR(IF it.line < Len(content)
                                               THEN content[it.line + 1]
                                               ELSE << >>))
        IN  /\ it.line >= 0
            /\ it.line < Len(content)
            /\ Len(bare) >= 4
            /\ SubSeq(bare, 1, 4) = <<"-", " ", "[ ]", " ">>
            /\ bare[3] # "[x]"
            /\ Trim(SubSeq(bare, 5, Len(bare))) = groups[g].text

\* C12 witness: a file with a checked line and an indented CRLF open task
\* was scanned, and the open task is the only item from it.
C12_Witness ==
  /\ CuSucceeded
  /\ \E k \in 1..Len(filesForCollector) :
       /\ filesForCollector[k].content = <<LnPlain, LnOpenAIndentCR>>
       /\ \E g \in 1..Len(groups) :
            /\ groups[g].text = <<"alpha">>
            /\ \E i \in 1..Len(groups[g].items) :
                 /\ groups[g].items[i].uri = filesForCollector[k].uri
                 /\ groups[g].items[i].line = 1
  /\ \E k \in 1..Len(filesForCollector) : LnDoneA \in Range(filesForCollector[k].content)


(* --------------------- path resolution: vocabulary --------------------- *)
RvCalled == resolved # NoUri

\* "absolute (leading slash or drive letter)"
AbsoluteRoot(root) ==
  /\ root # << >>
  /\ root[1] = "/" \/ root[1] \in DriveLetters

\* vaultRoot/relativePath[/fileName], written out.
UnderRoot(root) ==
  root \o <<"/">> \o dailyNotePath
    \o (IF fileName = << >> THEN << >> ELSE <<"/">> \o fileName)

\* The file system path a file uri stands for, with "/" as the separator:
\* "//authority/path" for a uri with an authority, and no slash before a
\* drive letter.
LocationOf(uri) ==
  IF uri.authority # << >> THEN <<"/", "/">> \o uri.authority \o uri.path
  ELSE IF Len(uri.path) >= 2 /\ uri.path[2] \in DriveLetters THEN Tail(uri.path)
  ELSE uri.path

ForwardSlashed(s) == [i \in 1..Len(s) |-> IF s[i] = "\\" THEN "/" ELSE s[i]]

\* C14: with an absolute vaultRoot (leading slash or drive letter) and a
\* workspace of the local file scheme, the resolved location is exactly
\* vaultRoot/relativePath[/fileName], and it is the same for every workspace
\* root.
C14_AbsoluteLocalIgnoresWorkspaceRoot ==
  (RvCalled /\ AbsoluteRoot(vaultRoot) /\ workspaceFolder.scheme = "file") =>
    /\ resolved.scheme = "file"
    /\ LocationOf(resolved) = IF isWindows THEN ForwardSlashed(UnderRoot(vaultRoot))
                              ELSE UnderRoot(vaultRoot)
    /\ \A w \in WorkspaceFolders :
         w.scheme = "file" =>
           resolveVaultUri(w, vaultRoot, dailyNotePath, fileName, isWindows) = resolved

\* C14 witness: a drive-letter vault root resolved for a note of a local
\* workspace.
C14_Witness ==
  /\ RvCalled
  /\ workspaceFolder = WsLocal
  /\ vaultRoot = <<"c:", "/", "vault">>
  /\ dailyNotePath = <<"dailynotes">>
  /\ resolved.path = <<"/", "c:", "/", "vault", "/", "dailynotes", "/",
                       "2025-10-30", ".md">>

\* C15: with an empty or relative vaultRoot the resolved location nests
\* under the workspace root: scheme and authority are the workspace root's
\* and the path is workspaceRoot[/vaultRoot]/relativePath[/fileName].
C15_RelativeNestsUnderWorkspaceRoot ==
  (RvCalled /\ ~AbsoluteRoot(vaultRoot)) =>
    /\ resolved.scheme = workspaceFolder.scheme
    /\ resolved.authority = workspaceFolder.authority
    /\ Segments(resolved.path) =
         Segments(workspaceFolder.path)
           \o (IF \A i \in 1..Len(vaultRoot) : vaultRoot[i] = " " THEN << >>
               ELSE Segments(vaultRoot))
           \o Segments(dailyNotePath)
           \o (IF fileName = << >> THEN << >> ELSE <<fileName>>)

\* The normalized form of a vault root: no backslash, no repeated slash,
\* exactly one leading slash, and otherwise the segments of the root.
IsNormalizedFormOf(n, root) ==
  /\ n # << >>
  /\ n[1] = "/"
  /\ \A i \in 1..Len(n) : n[i] # "\\"
  /\ \A i \in 1..(Len(n) - 1) : ~(n[i] = "/" /\ n[i + 1] = "/")
  /\ Segments(n) = Segments(ForwardSlashed(root))
  /\ (n[Len(n)] = "/") = (ForwardSlashed(root)[Len(root)] = "/")

\* C16: with an absolute vaultRoot and a workspace of a non-local scheme,
\* the resolved location keeps the workspace root's scheme and authority,
\* and its path is the normalized vaultRoot followed by
\* /relativePath[/fileName].
C16_AbsoluteRemoteGraftsNormalizedPath ==
  (RvCalled /\ AbsoluteRoot(vaultRoot) /\ workspaceFolder.scheme # "file") =>
    /\ resolved.scheme = workspaceFolder.scheme
    /\ resolved.authority = workspaceFolder.authority
    /\ \E k \in 1..Len(resolved.path) :
         /\ IsNormalizedFormOf(SubSeq(resolved.path, 1, k), vaultRoot)
         /\ SubSeq(resolved.path, k + 1, Len(resolved.path)) =
              <<"/">> \o dailyNotePath
                \o (IF fileName = << >> THEN << >> ELSE <<"/">> \o fileName)

\* C16 witness: a drive-letter vault root written with backslashes resolved
\* for the directory of a remote workspace.
C16_Witness ==
  /\ RvCalled
  /\ workspaceFolder = WsRemote
  /\ vaultRoot = <<"c:", "\\", "vault", "\\", "sub">>
  /\ resolved = [scheme |-> "vscode-remote", authority |-> <<"host">>,
                 path |-> <<"/", "c:", "/", "vault", "/", "sub", "/", "dailynotes">>]


(* ---------------------- note operations: vocabulary -------------------- *)
\* How many times call n issued or saw event e on uri u.
DnCount(n, e, u) ==
  Cardinality({ i \in 1..Len(dlog) :
                  dlog[i].call = n /\ dlog[i].ev = e /\ dlog[i].uri = u })

OpOfCall(n) == dlog[CHOOSE i \in 1..Len(dlog) : dlog[i].call = n].op

EnsureCalls == { n \in 1..calls : OpOfCall(n) = "ensure" }

\* The template is configured, present and readable.
TemplateAvailable ==
  /\ templatePath # << >>
  /\ \E i \in 1..Len(templatePath) : templatePath[i] # " "
  /\ templateFile # NoFile
  /\ templateReadable

\* C17: ensureDailyNoteExists creates the note only if it does not exist.
\* When the existence check returns true it issues no createDirectory and
\* no write and the content of the note is unchanged; when it returns false
\* it writes the template content exactly once; two calls in sequence
\* perform at most one write.
C17_EnsureCreatesOnlyIfAbsent ==
  /\ \A n \in EnsureCalls :
       /\ DnCount(n, "exists_true", DailyUri) = 1 =>
            /\ DnCount(n, "createDirectory", getParentDirectory(DailyUri)) = 0
            /\ DnCount(n, "write", DailyUri) = 0
            /\ n = calls => dailyNote = preNote
       /\ DnCount(n, "exists_false", DailyUri) = 1 =>
            /\ DnCount(n, "write", DailyUri) <= 1
            /\ (n = calls /\ dpc = "done" /\ result.status = "ok") =>
                 /\ DnCount(n, "write", DailyUri) = 1
                 /\ DnCount(n, "write_ok", DailyUri) = 1
                 /\ TemplateAvailable => dailyNote = templateFile
                 /\ dailyNote \in {templateFile, EmptyString}
  /\ \A n \in EnsureCalls :
       (n + 1) \in EnsureCalls =>
         DnCount(n, "write_ok", DailyUri) + DnCount(n + 1, "write_ok", DailyUri) <= 1

\* C17 witness: two calls in sequence, the first created the note from the
\* template, the second found it.
C17_Witness ==
  /\ EnsureCalls = {1, 2}
  /\ dpc = "done"
  /\ result.status = "ok"
  /\ DnCount(1, "exists_false", DailyUri) = 1
  /\ DnCount(1, "write_ok", DailyUri) = 1
  /\ DnCount(2, "exists_true", DailyUri) = 1
  /\ dailyNote = <<LnTitle, LnEmpty, LnQuick>>


\* The events of call n, in order.
EventsOfCall(n) == SelectSeq(dlog, LAMBDA e : e.call = n)

LastEventOfCall(n) == EventsOfCall(n)[Len(EventsOfCall(n))]

TemplateUnconfigured ==
  templatePath = << >> \/ \A i \in 1..Len(templatePath) : templatePath[i] = " "

\* C18: a missing or unconfigured template is not fatal: when the template
\* read fails with NotFound, or no template path is configured,
\* getTemplateContent yields the empty string and ensureDailyNoteExists
\* still creates the note, with empty content; a failed read of the daily
\* note in appendToSection is thrown to the caller and no write follows it.
C18_MissingTemplateNotFatalNoteReadFatal ==
  /\ \A n \in 1..calls :
       LET missing == DnCount(n, "read_notfound", TemplateUri) = 1
           unconfigured == /\ TemplateUnconfigured
                           /\ DnCount(n, "exists_false", DailyUri) = 1
       IN  (missing \/ unconfigured) =>
             /\ LastEventOfCall(n).ev # "read_notfound"
             /\ DnCount(n, "createDirectory", getParentDirectory(DailyUri)) = 1
             /\ (n = calls /\ dpc \in {"en_mkdir", "en_write"}) =>
                  templateContent = EmptyString
             /\ (n = calls /\ dpc = "done" /\ result.status = "ok"
                   /\ OpOfCall(n) = "ensure") => dailyNote = EmptyString
             /\ (n = calls /\ dpc = "ap_read") => dailyNote = EmptyString
  /\ \A n \in 1..calls :
       DnCount(n, "read_fail", DailyUri) >= 1 =>
         /\ LastEventOfCall(n) = [call |-> n, op |-> "append", ev |-> "read_fail",
                                  uri |-> DailyUri]
         /\ n = calls => (dpc = "done" /\ result.status = "error")
         /\ n = calls => dailyNote = preNote \/ DnCount(n, "write_ok", DailyUri) = 1

\* C18 witness: a note was created empty although the template file is
\* missing, and the next appendToSection failed to read it and threw,
\* leaving it as it was.
C18_Witness ==
  /\ calls = 2
  /\ DnCount(1, "read_notfound", TemplateUri) = 1
  /\ DnCount(1, "write_ok", DailyUri) = 1
  /\ OpOfCall(1) = "ensure"
  /\ DnCount(2, "read_fail", DailyUri) = 1
  /\ dpc = "done"
  /\ result.status = "error"
  /\ dailyNote = EmptyString

\* C19: getTemplateContent handles only non-existence gracefully: when the
\* template file exists and its read fails for another reason, the error is
\* raised to the caller and not replaced by empty content.
C19_OtherTemplateReadErrorsRaised ==
  \A n \in 1..calls :
    DnCount(n, "read_fail", TemplateUri) = 1 =>
      /\ LastEventOfCall(n).ev = "read_fail"
      /\ n = calls => (dpc = "done" /\ result = Rejected("NoPermissions"))

\* How many lines of the content are the heading of the section.
HeadingCount(content, section) ==
  Cardinality({ i \in 1..Len(LinesOf(content)) :
                  Trim(LinesOf(content)[i]) = <<"##", " ", section>> })

\* The body of the section: the lines after its heading up to the next
\* heading of level 1 or 2, or to the end of the content.
SectionBody(content, section) ==
  LET lines == LinesOf(content)
      hs == { i \in 1..Len(lines) : Trim(lines[i]) = <<"##", " ", section>> }
      h == CHOOSE i \in hs : \A j \in hs : i <= j
      ends == { j \in (h + 1)..Len(lines) :
                  /\ Len(lines[j]) >= 2
                  /\ lines[j][1] \in {"#", "##"}
                  /\ lines[j][2] = " " }
      stop == IF ends = {} THEN Len(lines) + 1
              ELSE CHOOSE j \in ends : \A k \in ends : j <= k
  IN  IF hs = {} THEN << >> ELSE SubSeq(lines, h + 1, stop - 1)

\* C20: re-insertion never duplicates the heading: after two or more
\* appendToSection calls with the same section name on the same note, the
\* heading "## section" occurs exactly once in the content (given it
\* occurred at most once before the first call), and the captured lines
\* are in the body of that section in call order, after what the body held.
C20_ReinsertionKeepsOneHeading ==
  (/\ Len(captured) >= 2
   /\ \A i \in 1..Len(captured) : captured[i].targetSection = captured[1].targetSection
   /\ HeadingCount(texts[1], captured[1].targetSection) <= 1) =>
    LET section == captured[1].targetSection
    IN  /\ HeadingCount(dailyNote, section) = 1
        /\ SectionBody(dailyNote, section) =
             SectionBody(texts[1], section)
               \o [i \in 1..Len(captured) |-> captured[i].lineText]

\* C20 witness: two lines were captured into a section that did not exist
\* before the first call, in a note whose last section is another one.
C20_Witness ==
  /\ Len(captured) = 2
  /\ captured[1].targetSection = CaptureSectionName
  /\ captured[2].targetSection = CaptureSectionName
  /\ captured[1].lineText # captured[2].lineText
  /\ texts[1] = <<LnTitle, LnOther>>
  /\ dailyNote = <<LnTitle, LnOther, LnEmpty, LnQuick,
                   captured[1].lineText, captured[2].lineText>>


(* ------------------- QuickCaptureSidebarProvider ----------------------- *)
\* The webview view is resolved on a workspace and a storage.
SbInit ==
  /\ CcIdle
  /\ PvIdle
  /\ RvIdle
  /\ DnIdle
  /\ store \in Vaults
  /\ pending = {}
  /\ pc = "idle"
  /\ items = << >>
  /\ completionDate = ""
  /\ byUri = << >>
  /\ gi = 0
  /\ updated = EmptyString
  /\ lastContent = EmptyString
  /\ uris = << >>
  /\ ci = 0
  /\ filesForCollector = << >>
  /\ outcome = NoOutcome
  /\ groups = << >>
  /\ pre = store
  /\ log = << >>
  /\ hasWorkspaceFolder \in BOOLEAN
  /\ dailyNoteDir \in ScanDirs
  /\ handler = "idle"
  /\ payload = NoPayload
  /\ scanStart = 0
  /\ posted = << >>
  /\ command = ""
  /\ capture = NoCapture
  /\ truncated = FALSE
  /\ warned = 0
  /\ found = << >>

\* vscode.Uri.file(i.uri) for the fsPath string of a payload item.
UriFileOf(fsPath) == CHOOSE u \in Uris : FsPath(u) = fsPath

\* result.uri.toString() for a resolved location: scheme, "://", authority
\* and path.
LocationToString(u) == <<u.scheme, "://">> \o u.authority \o u.path

ErrorMessage(m) == [command |-> "error", message |-> m, groups |-> << >>]
TasksUpdate(gs) == [command |-> "tasks:update", message |-> "", groups |-> gs]
CaptureOk(u, n) == [command |-> "capture:ok", uri |-> LocationToString(u), line |-> n]

\* The .md files findFiles can return for the directory: those in storage
\* under it.
FilesUnder(dir) ==
  { u \in DOMAIN store : store[u] # NoFile /\ (dir = "/v" \/ u.dir = dir) }

\* The orders findFiles can return a set of files in.
Orders(S) == { s \in [1..Cardinality(S) -> S] : Range(s) = S }

\* const maxFiles = 200; findFiles is asked for at most maxFiles + 1 files.
maxFiles == 200
FindFilesLimit == maxFiles + 1

\* Variant: truncation is detected one file too late.
TruncatedBeyondLimit(files) == Len(files) > maxFiles + 1

\* truncated = files.length > maxFiles
Truncated(files) == Len(files) > maxFiles

\* truncated ? files.slice(0, maxFiles) : files
FilesToProcess(files) ==
  IF Truncated(files) THEN SubSeq(files, 1, maxFiles) ELSE files

\* Number.isNaN(Number(i.line)) for item i of the payload: Number(undefined)
\* is NaN, Number(null) is 0, a number is itself.
LineIsNaN(p, i) == p.lineKinds[i] = "undefined"

\* Number(i.line) for an item whose line does not convert to NaN.
NumberOfLine(p, i) == IF p.lineKinds[i] = "null" THEN 0 ELSE p.items[i].line

\* !text || !Array.isArray(items) || items.length === 0, or some item whose
\* Number(i.line) is NaN.
InvalidPayload(p) ==
  \/ p.text = ""
  \/ Len(p.items) = 0
  \/ \E i \in 1..Len(p.items) : LineIsNaN(p, i)

\* The capture:add messages: without content, with an empty or a blank
\* content, with a content to capture.
CaptureMessages ==
  { NoCapture }
    \cup { [given |-> TRUE, content |-> c] :
             c \in { << >>, <<" ">>, <<" ", " ">> } \cup CaptureContents }

\* msg.content || ''
CaptureText(m) == IF m.given THEN m.content ELSE << >>

\* Variant: only the empty string is an empty capture.
EmptyCaptureUntrimmed(text) == text = << >>

\* !text || text.trim() === ''
EmptyCapture(text) == text = << >> \/ Trim(text) = << >>

\* A capture:add message arrives: an empty capture or a missing workspace
\* folder is answered with an error; else appendToSection(workspaceFolder,
\* text) is called.
CaptureAddMessage ==
  /\ handler = "idle"
  /\ dpc = "idle"
  /\ command' = "capture:add"
  /\ \E m \in CaptureMessages :
       /\ capture' = m
       /\ IF EmptyCapture(CaptureText(m))
          THEN /\ posted' = Append(posted, ErrorMessage("Empty capture"))
               /\ handler' = "done"
               /\ UNCHANGED dnVars
          ELSE IF ~hasWorkspaceFolder
          THEN /\ posted' = Append(posted, ErrorMessage("No workspace open"))
               /\ handler' = "done"
               /\ UNCHANGED dnVars
          ELSE /\ AppendToSectionStarts(CaptureText(m), "")
               /\ handler' = "capturing"
               /\ UNCHANGED posted
  /\ UNCHANGED <<hasWorkspaceFolder, dailyNoteDir, payload, scanStart, truncated, warned,
                 found>>
  /\ UNCHANGED <<taskVars, rvVars, pvVars, ccVars>>

\* Variant: capture:ok is posted whether or not appendToSection threw.
CaptureSettledAlwaysOk(r) == CaptureOk(r.uri, r.line)

\* The message posted when appendToSection has settled: capture:ok with
\* the uri and the line, or the error of the handler's catch.
CaptureSettled(r) ==
  IF r.status = "ok" THEN CaptureOk(r.uri, r.line) ELSE ErrorMessage(r.error)

\* appendToSection has settled: capture:ok with the uri and the line is
\* posted, or the handler's catch posts the error.
CaptureAddPosts ==
  /\ handler = "capturing"
  /\ dpc = "done"
  /\ posted' = Append(posted, CaptureSettled(result))
  /\ handler' = "done"
  /\ UNCHANGED <<hasWorkspaceFolder, dailyNoteDir, payload, scanStart, command,
                 capture, truncated, warned, found>>
  /\ UNCHANGED <<taskVars, rvVars, dnVars, pvVars, ccVars>>

\* A task:complete message arrives: an invalid payload is answered with an
\* error; else the items are parsed and completeTasks(parsedItems, today)
\* is called.  At most one item of the payload has a line that is not a
\* number (its line field then reads 0 in the model).
TaskCompleteMessage ==
  /\ handler = "idle"
  /\ pc = "idle"
  /\ command' = "task:complete"
  /\ \E given \in BOOLEAN, text \in {"", "alpha"},
        its \in SeqsUpTo(ItemRefs, MaxPayloadItems), today \in Dates :
       \E odd \in {[at |-> 0, kind |-> "number"]}
                  \cup { [at |-> i, kind |-> k] :
                           i \in { n \in 1..Len(its) : its[n].line = 0 },
                           k \in {"null", "undefined"} } :
         LET sent == [i \in 1..Len(its) |-> [uri |-> FsPath(its[i].uri),
                                             line |-> its[i].line]]
             received == IF given
                         THEN [given |-> TRUE, text |-> text, items |-> sent,
                               lineKinds |-> [i \in 1..Len(its) |->
                                                IF i = odd.at THEN odd.kind
                                                ELSE "number"]]
                         ELSE NoPayload
             parsedItems == [i \in 1..Len(received.items) |->
                               [uri |-> UriFileOf(received.items[i].uri),
                                line |-> NumberOfLine(received, i)]]
         IN  /\ payload' = received
             /\ IF InvalidPayload(received)
                THEN /\ posted' = Append(posted,
                                         ErrorMessage("Invalid task complete payload"))
                     /\ handler' = "done"
                     /\ UNCHANGED <<items, completionDate, byUri, gi, lastContent, pc, pre>>
                ELSE /\ items' = parsedItems
                     /\ completionDate' = today
                     /\ byUri' = GroupByUri(<< >>, parsedItems)
                     /\ gi' = 1
                     /\ lastContent' = EmptyString
                     /\ pc' = "ct_loop"
                     /\ pre' = store
                     /\ handler' = "completing"
                     /\ UNCHANGED posted
  /\ UNCHANGED <<store, pending, updated, outcome, log, scanStart>>
  /\ UNCHANGED <<hasWorkspaceFolder, dailyNoteDir, capture, truncated, warned, found>>
  /\ UNCHANGED <<cuVars, rvVars, dnVars, pvVars, ccVars>>

\* completeTasks has settled.  If it threw, the handler posts the error.
\* Without a workspace folder it posts an empty tasks:update.  Else findFiles
\* is asked for the files of the daily note directory.
TaskCompleteRefresh ==
  /\ handler = "completing"
  /\ pc = "done"
  /\ IF outcome.status = "error"
     THEN /\ posted' = Append(posted, ErrorMessage(outcome.error))
          /\ handler' = "done"
     ELSE IF ~hasWorkspaceFolder
     THEN /\ posted' = Append(posted, TasksUpdate(<< >>))
          /\ handler' = "done"
     ELSE /\ handler' = "tc_find"
          /\ UNCHANGED posted
  /\ UNCHANGED <<hasWorkspaceFolder, dailyNoteDir, payload, scanStart, command,
                 capture, truncated, warned, found>>
  /\ UNCHANGED <<taskVars, rvVars, dnVars, pvVars, ccVars>>

\* A request:tasks message arrives: without a workspace folder an empty
\* tasks:update is posted; else findFiles is asked for the files of the
\* daily note directory.
RequestTasksMessage ==
  /\ handler = "idle"
  /\ pc = "idle"
  /\ command' = "request:tasks"
  /\ IF ~hasWorkspaceFolder
     THEN /\ posted' = Append(posted, TasksUpdate(<< >>))
          /\ handler' = "done"
     ELSE /\ handler' = "rt_find"
          /\ UNCHANGED posted
  /\ UNCHANGED <<hasWorkspaceFolder, dailyNoteDir, payload, scanStart, capture,
                 truncated, warned, found>>
  /\ UNCHANGED <<taskVars, rvVars, dnVars, pvVars, ccVars>>

\* A directory with about maxFiles notes, note n being ManyUri(n).
ManyDir == "/v/many"
ManyUri(n) == [dir |-> ManyDir, base |-> ToString(n)]

\* What findFiles(pattern, exclude, maxFiles + 1) can resolve to: the files
\* under the directory in any order, cut to the limit.  For the directory
\* of many notes one order is followed, that of their numbers.
FindFilesResults(dir) ==
  IF dir = ManyDir
  THEN LET k == Cardinality(FilesUnder(dir))
       IN  { [i \in 1..(IF k > FindFilesLimit THEN FindFilesLimit ELSE k) |->
                ManyUri(i)] }
  ELSE { SubSeq(s, 1, IF Len(s) > FindFilesLimit THEN FindFilesLimit ELSE Len(s)) :
           s \in Orders(FilesUnder(dir)) }

\* findFiles resolves: collectTasksFromUris is called with the files, or
\* with the first maxFiles of them.
FindFilesResolves ==
  /\ handler \in {"rt_find", "tc_find"}
  /\ \E files \in FindFilesResults(dailyNoteDir) :
       /\ found' = files
       /\ truncated' = Truncated(files)
       /\ uris' = FilesToProcess(files)
  /\ ci' = 1
  /\ filesForCollector' = << >>
  /\ pc' = "cu_loop"
  /\ scanStart' = Len(log)
  /\ handler' = IF handler = "rt_find" THEN "rt_collect" ELSE "refreshing"
  /\ UNCHANGED <<store, pending, outcome, groups, log, pre>>
  /\ UNCHANGED <<hasWorkspaceFolder, dailyNoteDir, payload, posted, command,
                 capture, warned>>
  /\ UNCHANGED <<ctVars, rvVars, dnVars, pvVars, ccVars>>

\* Variant: the catch of request:tasks posts an error message.
RequestTasksCatchAsError == ErrorMessage("Failed")

\* The catch of request:tasks: postMessage({ command: 'tasks:update',
\* groups: [] }).
RequestTasksCatch == TasksUpdate(<< >>)

\* findFiles rejects: the catch of request:tasks posts an empty
\* tasks:update, the catch of task:complete posts the error.
FindFilesRejects ==
  /\ handler \in {"rt_find", "tc_find"}
  /\ posted' = Append(posted, IF handler = "rt_find" THEN RequestTasksCatch
                              ELSE ErrorMessage("FindFilesFailed"))
  /\ handler' = "done"
  /\ UNCHANGED <<hasWorkspaceFolder, dailyNoteDir, payload, scanStart, command,
                 capture, truncated, warned, found>>
  /\ UNCHANGED <<taskVars, rvVars, dnVars, pvVars, ccVars>>

\* The read of a file that was found is rejected by the storage:
\* collectTasksFromUris throws.
CollectReadFails ==
  /\ handler \in {"rt_collect", "refreshing"}
  /\ pc = "cu_await_read"
  /\ ReadOp(uris[ci]) \in pending
  /\ pending' = pending \ {ReadOp(uris[ci])}
  /\ log' = Append(log, Event("read_fail", uris[ci]))
  /\ outcome' = Thrown("NoPermissions")
  /\ pc' = "done"
  /\ UNCHANGED <<store, pre, uris, ci, filesForCollector, groups>>
  /\ UNCHANGED ctVars
  /\ UNCHANGED extVars

\* collectTasksFromUris has settled in the scan of either handler: the
\* warning is shown when the files were truncated; the messages posted and
\* the warnings shown.
ScanSettled(onError) ==
  IF outcome.status = "ok"
  THEN [posted |-> Append(posted, TasksUpdate(groups)),
        warned |-> IF truncated THEN warned + 1 ELSE warned]
  ELSE [posted |-> Append(posted, onError), warned |-> warned]

\* The scan of task:complete has settled: the groups are posted as
\* tasks:update, or the error is posted.
TaskCompletePosts ==
  /\ handler = "refreshing"
  /\ pc = "done"
  /\ posted' = ScanSettled(ErrorMessage(outcome.error)).posted
  /\ warned' = ScanSettled(ErrorMessage(outcome.error)).warned
  /\ handler' = "done"
  /\ UNCHANGED <<hasWorkspaceFolder, dailyNoteDir, payload, scanStart, command,
                 capture, truncated, found>>
  /\ UNCHANGED <<taskVars, rvVars, dnVars, pvVars, ccVars>>

\* The scan of request:tasks has settled: the groups are posted as
\* tasks:update, or the catch posts an empty tasks:update.
RequestTasksPosts ==
  /\ handler = "rt_collect"
  /\ pc = "done"
  /\ posted' = ScanSettled(RequestTasksCatch).posted
  /\ warned' = ScanSettled(RequestTasksCatch).warned
  /\ handler' = "done"
  /\ UNCHANGED <<hasWorkspaceFolder, dailyNoteDir, payload, scanStart, command,
                 capture, truncated, found>>
  /\ UNCHANGED <<taskVars, rvVars, dnVars, pvVars, ccVars>>

\* The handlers of capture:add and task:complete.
SbNext ==
  \/ CaptureAddMessage
  \/ ExistsResolves
  \/ CreateDirectoryResolves
  \/ CreateDirectoryRejects
  \/ NoteWriteResolves
  \/ NoteWriteRejects
  \/ NoteReadResolves
  \/ NoteReadRejects
  \/ CaptureAddPosts
  \/ TaskCompleteMessage
  \/ CompleteTasksNext
  \/ CompleteTasksReadResolves
  \/ CompleteTasksReadRejects
  \/ WriteResolves
  \/ WriteRejects
  \/ TaskCompleteRefresh
  \/ FindFilesResolves
  \/ FindFilesRejects
  \/ CollectNext
  \/ CollectReadResolves
  \/ CollectReadFails
  \/ TaskCompletePosts

SbSpec == SbInit /\ [][SbNext]_vars

\* The handler of capture:add on the notes, the template configurations
\* and the template files of the manager.
CapInit ==
  /\ CcIdle
  /\ PvIdle
  /\ RvIdle
  /\ TaskIdle
  /\ DnStart
  /\ hasWorkspaceFolder \in BOOLEAN
  /\ dailyNoteDir = "/v"
  /\ handler = "idle"
  /\ payload = NoPayload
  /\ scanStart = 0
  /\ posted = << >>
  /\ command = ""
  /\ capture = NoCapture
  /\ truncated = FALSE
  /\ warned = 0
  /\ found = << >>

CapNext ==
  \/ CaptureAddMessage
  \/ ExistsResolves
  \/ TemplateReadResolves
  \/ TemplateReadRejects
  \/ CreateDirectoryResolves
  \/ CreateDirectoryRejects
  \/ NoteWriteResolves
  \/ NoteWriteRejects
  \/ NoteReadResolves
  \/ NoteReadRejects
  \/ CaptureAddPosts

CapSpec == CapInit /\ [][CapNext]_vars

\* The scans of request:tasks and task:complete on a daily note directory
\* that holds maxFiles notes or a few more.
MaxExtraFiles == 1

ManyNotes(k) ==
  [u \in Uris \cup { ManyUri(n) : n \in 1..k } |->
     IF u = UriA THEN <<LnOpenA>>
     ELSE IF u \in Uris THEN NoFile
     ELSE IF u = ManyUri(1) THEN <<LnOpenB>>
     ELSE IF u = ManyUri(maxFiles + 1) THEN <<LnPlain, LnOpenA>>
     ELSE <<LnPlain>>]

TruncInit ==
  /\ CcIdle
  /\ PvIdle
  /\ RvIdle
  /\ DnIdle
  /\ \E k \in maxFiles..(maxFiles + MaxExtraFiles) : store = ManyNotes(k)
  /\ pending = {}
  /\ pc = "idle"
  /\ items = << >>
  /\ completionDate = ""
  /\ byUri = << >>
  /\ gi = 0
  /\ updated = EmptyString
  /\ lastContent = EmptyString
  /\ uris = << >>
  /\ ci = 0
  /\ filesForCollector = << >>
  /\ outcome = NoOutcome
  /\ groups = << >>
  /\ pre = store
  /\ log = << >>
  /\ hasWorkspaceFolder = TRUE
  /\ dailyNoteDir = ManyDir
  /\ handler = "idle"
  /\ payload = NoPayload
  /\ scanStart = 0
  /\ posted = << >>
  /\ command = ""
  /\ capture = NoCapture
  /\ truncated = FALSE
  /\ warned = 0
  /\ found = << >>

TruncNext ==
  \/ RequestTasksMessage
  \/ TaskCompleteMessage
  \/ CompleteTasksNext
  \/ CompleteTasksReadResolves
  \/ CompleteTasksReadRejects
  \/ WriteResolves
  \/ WriteRejects
  \/ TaskCompleteRefresh
  \/ FindFilesResolves
  \/ FindFilesRejects
  \/ CollectNext
  \/ CollectReadResolves
  \/ CollectReadFails
  \/ TaskCompletePosts
  \/ RequestTasksPosts

TruncSpec == TruncInit /\ [][TruncNext]_vars

\* The handler of request:tasks.
RtNext ==
  \/ RequestTasksMessage
  \/ FindFilesResolves
  \/ FindFilesRejects
  \/ CollectNext
  \/ CollectReadResolves
  \/ CollectReadFails
  \/ RequestTasksPosts

\* A handler that waits for findFiles, for a read or for its own next
\* statement moves on: its position changes.
RtAdvances ==
  /\ handler \in {"rt_find", "rt_collect"}
  /\ handler' \in {"rt_collect", "done"}
  /\ pc' \in {"cu_loop", "cu_await_read", "done"}

\* Every promise the handler awaits settles in the end.
RtSpec == SbInit /\ [][RtNext]_vars /\ WF_<<handler, pc>>(RtAdvances)


(* ------------------------- sidebar: vocabulary ------------------------- *)
\* The handler has answered a valid task:complete message whose
\* completeTasks succeeded with a tasks:update message.
UpdateFollowsCompletion ==
  /\ handler = "done"
  /\ payload.text # ""
  /\ payload.items # << >>
  /\ posted # << >>
  /\ posted[Len(posted)].command = "tasks:update"

PostedGroups == posted[Len(posted)].groups

\* Item (path, line) is reported in a group of the posted message.
Reported(path, line) ==
  \E g \in 1..Len(PostedGroups) :
    \E i \in 1..Len(PostedGroups[g].items) :
      /\ PostedGroups[g].items[i].uri = path
      /\ PostedGroups[g].items[i].line = line

ReportedAs(path, line, text) ==
  \E g \in 1..Len(PostedGroups) :
    /\ PostedGroups[g].text = text
    /\ \E i \in 1..Len(PostedGroups[g].items) :
         /\ PostedGroups[g].items[i].uri = path
         /\ PostedGroups[g].items[i].line = line

InPayload(path, line) ==
  \E i \in 1..Len(payload.items) : payload.items[i] = [uri |-> path, line |-> line]

\* The posted groups come from a scan of the daily note directory that
\* started after every completion write had finished; no completed
\* occurrence is in them, and every other open occurrence of the scanned
\* files is.
FreshScanAfterWrites ==
  /\ ci > 0
  /\ Range(uris) = FilesUnder(dailyNoteDir)
  /\ pending = {}
  /\ CountEv("write", UriA) + CountEv("write", UriB) + CountEv("write", UriC)
       = Cardinality({ u \in Uris : Targeted(u) })
  /\ \A i \in 1..Len(log) :
       log[i].ev \in {"write", "write_ok", "write_fail"} => i <= scanStart
  /\ \A u \in Uris : CountEv("write", u) = CountEv("write_ok", u)
  /\ \A i \in 1..Len(payload.items) :
       ~Reported(payload.items[i].uri, payload.items[i].line)
  /\ \A g \in 1..Len(PostedGroups) : PostedGroups[g].items # << >>
  /\ \A u \in Range(uris) :
       \A t \in Range(extractTasks(pre[u])) :
         ~InPayload(FsPath(u), t.line) => ReportedAs(FsPath(u), t.line, t.text)

AppendSucceeded ==
  /\ dpc = "done"
  /\ op.name = "append"
  /\ result.status = "ok"

\* The text the last successful appendToSection read, and the text it wrote.
TextRead == texts[Len(texts)]
TextWritten == dailyNote

\* The lines of a content without their line endings.
LogicalLines(content) == [i \in 1..Len(content) |-> StripTrailingCR(content[i])]

\* The line is "## section" after trimming.
IsSectionHeading(line, section) == Trim(line) = <<"##", " ", section>>

\* The line is a heading of level 1 or 2.
IsTopHeading(line) ==
  /\ Len(line) >= 2
  /\ line[1] \in {"#", "##"}
  /\ line[2] = " "

\* The content has a line that is the heading of the section.
HasSection(content, section) ==
  \E i \in 1..Len(content) : IsSectionHeading(LogicalLines(content)[i], section)

\* The lines with one more line put in as line k.
WithLineAt(lines, k, line) ==
  SubSeq(lines, 1, k - 1) \o <<line>> \o SubSeq(lines, k, Len(lines))

\* C21: when the heading of the target section exists in the text read,
\* appendToSection writes the text with the new line as the last line of
\* the section's body: after the heading and every line of the body, and
\* immediately before the next heading of level <= 2 or at the end of the
\* file; every line that was there keeps its content and its place among
\* the others.
C21_LineEndsSectionBody ==
  (AppendSucceeded /\ HasSection(TextRead, op.targetSection)) =>
    LET before == LogicalLines(TextRead)
        after == LogicalLines(TextWritten)
        h == CHOOSE i \in 1..Len(before) :
               /\ IsSectionHeading(before[i], op.targetSection)
               /\ \A j \in 1..(i - 1) : ~IsSectionHeading(before[j], op.targetSection)
    IN  \E k \in (h + 1)..(Len(before) + 1) :
          /\ after = WithLineAt(before, k, LineText(op.content))
          /\ \A j \in (h + 1)..(k - 1) : ~IsTopHeading(before[j])
          /\ k = Len(after) \/ IsTopHeading(after[k + 1])

C21_Witness ==
  /\ AppendSucceeded
  /\ op.targetSection = CaptureSectionName
  /\ TextRead = <<LnTitle, LnQuick, LnTask, LnSub, LnEmpty, LnOther, LnPlain>>
  /\ TextWritten = <<LnTitle, LnQuick, LnTask, LnSub, LnEmpty,
                     LineText(op.content), LnOther, LnPlain>>


\* The content as one string: its lines with "LF" between them (a "CR"
\* before the "LF" is the last token of the line).
RECURSIVE Flat(_)
Flat(content) ==
  IF Len(content) <= 1 THEN (IF content = << >> THEN << >> ELSE content[1])
  ELSE content[1] \o <<"LF">> \o Flat(Tail(content))

IsPrefix(s, t) == Len(s) <= Len(t) /\ SubSeq(t, 1, Len(s)) = s

\* C22: when no line of the text read is "## section" after trimming,
\* appendToSection writes the text followed by a blank separating line, the
\* heading and the new line, at the end of the file, the text read being
\* an unchanged prefix of the text written; this holds for every text,
\* the empty one included, and the insertion never fails: every text read
\* is followed by the write of the new content.
C22_MissingSectionIsAppended ==
  /\ (AppendSucceeded /\ ~HasSection(TextRead, op.targetSection)) =>
        /\ LogicalLines(TextWritten) =
             (IF TextRead = EmptyString THEN << >> ELSE LogicalLines(TextRead))
               \o << LnEmpty, <<"##", " ", op.targetSection>>, LineText(op.content) >>
        /\ IsPrefix(Flat(TextRead), Flat(TextWritten))
  /\ \A i \in 1..Len(dlog) :
        (dlog[i].ev = "read_ok" /\ dlog[i].uri = DailyUri) =>
          /\ i < Len(dlog)
          /\ dlog[i + 1].ev = "write"
          /\ dlog[i + 1].uri = DailyUri

C22_Witness ==
  /\ AppendSucceeded
  /\ op.targetSection = CaptureSectionName
  /\ TextRead = <<LnTitle, LnOther>>
  /\ TextWritten = <<LnTitle, LnOther, LnEmpty, LnQuick, LineText(op.content)>>
  /\ result.line = 4


\* The string has a "\r\n" sequence.
ContainsCRLF(s) == \E i \in 1..(Len(s) - 1) : s[i] = "CR" /\ s[i + 1] = "LF"

\* Every newline of the string is "\r\n" (crlf) or a bare "\n" (not crlf),
\* and the string has no "\r" outside a "\r\n".
NewlinesAre(s, crlf) ==
  /\ \A i \in 1..Len(s) : s[i] = "LF" => (crlf <=> (i > 1 /\ s[i - 1] = "CR"))
  /\ \A i \in 1..Len(s) : s[i] = "CR" => (i < Len(s) /\ s[i + 1] = "LF")

C24_ReturnedLineAndUri ==
  AppendSucceeded =>
    LET before == LogicalLines(TextRead)
        after == LogicalLines(TextWritten)
        inserted == <<"-", " ", "[ ]", " ", TimeString, " ", "--", " ">> \o op.content
    IN  /\ result.line \in 0..(Len(after) - 1)
        /\ after[result.line + 1] = inserted
        /\ IF HasSection(TextRead, op.targetSection)
           THEN after = WithLineAt(before, result.line + 1, inserted)
           ELSE result.line + 1 = Len(after)
        /\ result.uri = DailyUri
        /\ LastEventOfCall(calls) = [call |-> calls, op |-> "append",
                                     ev |-> "write_ok", uri |-> result.uri]

C24_Witness ==
  /\ AppendSucceeded
  /\ TextRead = <<LnTitle, LnQuick, LnTask, LnSub, LnEmpty, LnOther, LnPlain>>
  /\ op.targetSection = CaptureSectionName
  /\ result = Resolved(DailyUri, 5)
  /\ TextWritten[6] = LineText(op.content)


\* C25: capture and scan round trip: after appendToSection succeeds,
\* extractTasks on the text written has an open task whose text is
\* "{time} -- {content}" trimmed and whose line is the line returned, and
\* completing that occurrence rewrites exactly the captured line: it is
\* checked and tagged, every other line is unchanged.
C25_CaptureScanRoundTrip ==
  AppendSucceeded =>
    LET tasks == extractTasks(TextWritten)
        expected == Trim(<<TimeString, " ", "--", " ">> \o op.content)
        completed == markTaskCompleted(TextWritten, result.line, Today)
        target == result.line + 1
    IN  /\ \E i \in 1..Len(tasks) : tasks[i] = [text |-> expected, line |-> result.line]
        /\ completed.ok
        /\ Len(completed.content) = Len(TextWritten)
        /\ \A j \in 1..Len(TextWritten) :
              j # target => completed.content[j] = TextWritten[j]
        /\ StripTrailingCR(completed.content[target]) =
             <<"-", " ", "[x]", " ", TimeString, " ", "--", " ">> \o op.content
               \o <<" ", "[completion:", " ", Today, "]">>
        /\ \A i \in 1..Len(extractTasks(completed.content)) :
              extractTasks(completed.content)[i].line # result.line

C25_Witness ==
  /\ AppendSucceeded
  /\ op.content = <<"two", " ">>
  /\ TextRead = <<CR(LnTitle), CR(LnQuick), CR(LnTask), LnOther>>
  /\ op.targetSection = CaptureSectionName
  /\ extractTasks(TextWritten)[2] = [text |-> <<TimeString, " ", "--", " ", "two">>, line |-> 3]


(* ------------------------ sidebar: capture:add ------------------------- *)
\* The content of the capture:add message is missing, empty or only
\* whitespace.
NothingToCapture ==
  \/ ~capture.given
  \/ \A i \in 1..Len(capture.content) : capture.content[i] = " "

\* C26: a capture:add message whose content is missing, empty or only
\* whitespace, or that arrives when no workspace folder is open, is answered
\* with an error message ("Empty capture", or "No workspace open") and
\* nothing else: appendToSection is never called, no storage operation is
\* issued, and no file or directory is created or modified.
C26_RejectedCaptureTouchesNothing ==
  (command = "capture:add" /\ (NothingToCapture \/ ~hasWorkspaceFolder)) =>
    /\ handler = "done"
    /\ posted = << [command |-> "error",
                    message |-> IF NothingToCapture THEN "Empty capture"
                                ELSE "No workspace open",
                    groups |-> << >>] >>
    /\ calls = 0
    /\ dpc = "idle"
    /\ dlog = << >>
    /\ log = << >>
    /\ dailyNote = preNote
    /\ directories = {}
    /\ \A u \in Uris : store[u] = pre[u]

C26_Witness ==
  /\ command = "capture:add"
  /\ capture = [given |-> TRUE, content |-> <<" ", " ">>]
  /\ hasWorkspaceFolder
  /\ dailyNote = <<LnTitle, LnEmpty, LnQuick, LnTask>>
  /\ posted = << ErrorMessage("Empty capture") >>


(* ---------------------- sidebar: reported failures --------------------- *)
\* The handler of capture:add called appendToSection and it has thrown.
AppendFailed == command = "capture:add" /\ dpc = "done" /\ result.status = "error"

\* The handler of task:complete called completeTasks and it has thrown:
\* the scan was never started.
CompleteFailed ==
  /\ command = "task:complete"
  /\ pc = "done"
  /\ outcome.status = "error"
  /\ ci = 0

Commands == { posted[i].command : i \in 1..Len(posted) }

\* C27: failures are reported, never swallowed: when appendToSection fails
\* in capture:add, or completeTasks fails in task:complete, the handler
\* posts an error message carrying the message of the failure and posts no
\* capture:ok and no tasks:update; when appendToSection succeeds the
\* handler posts capture:ok with the uri and the line it returned.
C27_FailuresReported ==
  /\ (AppendFailed /\ handler = "done") =>
        posted = << [command |-> "error", message |-> result.error, groups |-> << >>] >>
  /\ (CompleteFailed /\ handler = "done") =>
        posted = << [command |-> "error", message |-> outcome.error, groups |-> << >>] >>
  /\ (AppendFailed \/ CompleteFailed) => Commands \subseteq {"error"}
  /\ (command = "capture:add" /\ handler = "done" /\ result.status = "ok") =>
        posted = << [command |-> "capture:ok",
                     uri |-> <<"file", "://">> \o DailyUri.path,
                     line |-> result.line] >>
  /\ (command = "capture:add" /\ handler = "capturing") => posted = << >>

C27_Witness ==
  /\ AppendFailed
  /\ handler = "done"
  /\ LastEventOfCall(1).ev = "write_fail"
  /\ posted = << ErrorMessage(result.error) >>
  /\ result.error # ""


(* ----------------------- sidebar: request:tasks ------------------------ *)
\* A read of the scan was rejected.
ScanReadFailed == \E i \in 1..Len(log) : log[i].ev = "read_fail"

\* findFiles resolved and collectTasksFromUris was called.
ScanStarted == ci > 0

\* The request:tasks message has been answered.
RequestAnswered ==
  /\ handler = "done"
  /\ Len(posted) = 1
  /\ posted[1].command = "tasks:update"

\* What a request:tasks handler has done so far: no error message, no
\* write, and the groups it answered with.
RequestTasksAnswer ==
  command = "request:tasks" =>
    /\ Commands \subseteq {"tasks:update"}
    /\ \A i \in 1..Len(log) : log[i].ev \in {"read", "read_ok", "read_fail"}
    /\ store = pre
    /\ dlog = << >>
    /\ dailyNote = preNote
    /\ handler = "done" =>
         /\ RequestAnswered
         /\ IF ~hasWorkspaceFolder \/ ~ScanStarted \/ ScanReadFailed
            THEN posted[1].groups = << >>
            ELSE /\ Range(uris) = FilesUnder(dailyNoteDir)
                 /\ posted[1].groups = collectOpenTasksFromFiles(
                      [i \in 1..Len(uris) |->
                         [uri |-> FsPath(uris[i]), file |-> uris[i].base,
                          content |-> store[uris[i]]]])
                 /\ \A u \in FilesUnder(dailyNoteDir) :
                      \A t \in Range(extractTasks(store[u])) :
                        ReportedAs(FsPath(u), t.line, t.text)

\* C28: every request:tasks message is eventually answered with a
\* tasks:update message and never with an error; the groups are empty when
\* no workspace folder is open, when the file search fails or when a file
\* read fails, and are the grouped open tasks of the scanned files
\* otherwise; the handler writes no file.
C28_RequestTasksAlwaysAnswered ==
  /\ [](RequestTasksAnswer)
  /\ (command = "request:tasks") ~> RequestAnswered

C28_Witness ==
  /\ command = "request:tasks"
  /\ hasWorkspaceFolder
  /\ RequestAnswered
  /\ ScanReadFailed
  /\ Len(filesForCollector) = 1
  /\ posted = << TasksUpdate(<< >>) >>


(* ----------------- sidebar: task:complete validation ------------------- *)
\* The payload of the task:complete message is missing, has no text, has
\* no items, or has an item whose line is not a number.
PayloadRejectable ==
  \/ ~payload.given
  \/ payload.text = ""
  \/ payload.items = << >>
  \/ \E i \in 1..Len(payload.items) : payload.lineKinds[i] # "number"

\* C29: a task:complete message whose payload is missing, has an empty
\* text, has zero items, or has an item whose line is not a number is
\* answered with the error "Invalid task complete payload" before any
\* storage access: completeTasks is not called, no file is read or written.
C29_InvalidPayloadRejectedFirst ==
  (command = "task:complete" /\ PayloadRejectable) =>
    /\ handler = "done"
    /\ posted = << [command |-> "error", message |-> "Invalid task complete payload",
                    groups |-> << >>] >>
    /\ log = << >>
    /\ pending = {}
    /\ pc = "idle"
    /\ \A u \in Uris : store[u] = pre[u]


(* ------------------------ sidebar: the scan limit ---------------------- *)
\* The files handed to collectTasksFromUris are the files found, or the
\* first maxFiles of them when more were found.
ScanTakesFirstFiles ==
  ScanStarted =>
    /\ Len(uris) <= maxFiles
    /\ IF Len(found) > maxFiles
       THEN uris = SubSeq(found, 1, maxFiles)
       ELSE uris = found

\* The handler has finished a scan that was started.
ScanOver == handler = "done" /\ ScanStarted

\* C30: a task scan processes at most 200 files: when findFiles returns
\* more than 200 files exactly the first 200 are passed to
\* collectTasksFromUris, and when that collection succeeds one warning is
\* shown; when it returns 200 or fewer all are passed and no warning is
\* shown; this holds for request:tasks and for the refresh after
\* task:complete.
C30_ScanLimitedWarnsAfterCollection ==
  /\ ScanTakesFirstFiles
  /\ ScanOver =>
       warned = IF Len(found) > maxFiles /\ outcome.status = "ok" THEN 1 ELSE 0
  /\ ~ScanOver => warned = 0

\* C30 as stated: the warning is shown whenever more than 200 files were
\* found.
C30_ScanLimitedWarnsAlways ==
  /\ ScanTakesFirstFiles
  /\ ScanOver => warned = IF Len(found) > maxFiles THEN 1 ELSE 0

\* C30 witness: after a task:complete the search found 201 notes, the
\* first 200 were read, the warning was shown and the open task of note
\* 201 is not in the groups posted.
C30_Witness ==
  /\ command = "task:complete"
  /\ ScanOver
  /\ Len(found) = maxFiles + 1
  /\ Len(filesForCollector) = maxFiles
  /\ warned = 1
  /\ posted[Len(posted)].command = "tasks:update"
  /\ ReportedAs(FsPath(ManyUri(1)), 0, <<"beta">>)
  /\ ~Reported(FsPath(ManyUri(maxFiles + 1)), 1)


(* ----------------------- MarkdownRenderer: labels ---------------------- *)
MaxRawLen == 4

\* The characters of a raw link text: a blank, the pipe, two letters.
RawTokens == {" ", "|", "a", "b"}

\* The raw link texts handed to getWikiLinkLabel.
RawTexts == SeqsUpTo(RawTokens, MaxRawLen)

\* String.prototype.indexOf(x): the 0-based index of the first x, -1 if none.
IndexOf(s, x) ==
  IF \E i \in 1..Len(s) : s[i] = x
  THEN (CHOOSE i \in 1..Len(s) : s[i] = x /\ \A j \in 1..(i - 1) : s[j] # x) - 1
  ELSE -1

\* String.prototype.lastIndexOf(x).
LastIndexOf(s, x) ==
  IF \E i \in 1..Len(s) : s[i] = x
  THEN (CHOOSE i \in 1..Len(s) : s[i] = x /\ \A j \in (i + 1)..Len(s) : s[j] # x) - 1
  ELSE -1

\* String.prototype.substring(from, to) with 0-based bounds.
Substring(s, from, to) == SubSeq(s, from + 1, to)

\* Variant: the label is cut at the last pipe.
getWikiLinkLabelAtLastPipe(text) ==
  LET trimmed == Trim(text)
      pipeIndex == LastIndexOf(trimmed, "|")
      lbl == Trim(Substring(trimmed, pipeIndex + 1, Len(trimmed)))
  IN  IF pipeIndex = -1 THEN trimmed
      ELSE IF lbl # << >> THEN lbl
      ELSE Trim(Substring(trimmed, 0, pipeIndex))

getWikiLinkLabel(text) ==
  LET trimmed == Trim(text)
      pipeIndex == IndexOf(trimmed, "|")
      lbl == Trim(Substring(trimmed, pipeIndex + 1, Len(trimmed)))
  IN  IF pipeIndex = -1 THEN trimmed
      ELSE IF lbl # << >> THEN lbl
      ELSE Trim(Substring(trimmed, 0, pipeIndex))

\* A WikiLink with some raw text is about to be rendered.
LabelInit ==
  /\ CcIdle
  /\ TaskIdle
  /\ RvIdle
  /\ DnIdle
  /\ SbIdle
  /\ WlIdle
  /\ PnIdle
  /\ raw \in RawTexts
  /\ label = NoLabel

\* The inline rule sets token.content to the label of the raw text.
RenderLabel ==
  /\ label = NoLabel
  /\ label' = getWikiLinkLabel(raw)
  /\ UNCHANGED <<raw, wlVars, pnVars>>
  /\ UNCHANGED <<taskVars, rvVars, dnVars, sbVars, ccVars>>

LabelNext == RenderLabel

LabelSpec == LabelInit /\ [][LabelNext]_vars

(* ------------------------- labels: vocabulary -------------------------- *)
\* The raw text has a pipe and splits at its first pipe into these two parts.
SplitsAtFirstPipe(before, after) ==
  /\ raw = before \o <<"|">> \o after
  /\ "|" \notin Range(before)

LabelComputed == label # NoLabel

\* C31: for raw link text containing a pipe the label is the trimmed text
\* after the first pipe, or the trimmed text before it when that is empty;
\* without a pipe the label is the whole trimmed raw text.
C31_LabelRule ==
  LabelComputed =>
    /\ "|" \notin Range(raw) => label = Trim(raw)
    /\ \A n \in 0..Len(raw) :
         LET before == SubSeq(raw, 1, n)
             after == SubSeq(raw, n + 2, Len(raw))
         IN  (n < Len(raw) /\ SplitsAtFirstPipe(before, after)) =>
               label = IF Trim(after) # << >> THEN Trim(after) ELSE Trim(before)

\* C31 witness: a raw text with two pipes and blanks got the text after the
\* first pipe, second pipe included, as its label.
C31_Witness ==
  /\ raw = <<"a", "|", "b", "|">>
  /\ label = <<"b", "|">>

\* C31 second case: the text after the pipe is blank and the label falls
\* back to the text before it.
LabelFellBack ==
  /\ raw = <<" ", "a", "|", " ">>
  /\ label = <<"a">>


(* -------- WikiLinkProcessor, PathUtil, NoteFinder (link resolution) ----- *)
\* The links a preview sends: plain, aliased, with a heading, padded, with
\* characters no file name may hold, without a page name, blank.
Links ==
  { <<"a">>,
    <<"a", "|", "b">>,
    <<"a", "#", "b">>,
    <<" ", "a", " ">>,
    <<"a", " ", " ", "b">>,
    <<"a", "/", "b">>,
    <<"|", "b">>,
    <<"#", "b">>,
    <<" ", "|", "b">>,
    <<" ">> }

SlugStrategies == {"passthrough", "kebab-case", "snake_case"}

NoteExtension == <<".md">>
Template == <<"template">>

\* pageName[#heading][|alias]: the page name is the text before the first
\* "|" and before the first "#", trimmed.
PageNameOf(text) ==
  LET pipeIndex == IndexOf(text, "|")
      beforePipe == IF pipeIndex = -1 THEN text ELSE Substring(text, 0, pipeIndex)
      hashIndex == IndexOf(beforePipe, "#")
      beforeHash == IF hashIndex = -1 THEN beforePipe
                    ELSE Substring(beforePipe, 0, hashIndex)
  IN  Trim(beforeHash)

\* Variant: no link is an invalid reference.
InvalidLinkSyntaxNever(text) == FALSE

\* parseWikiLink fails with InvalidLinkSyntax on an empty page name.
InvalidLinkSyntax(text) == PageNameOf(text) = << >>

\* Runs of blanks become one separator.
RECURSIVE ReplaceBlankRuns(_, _)
ReplaceBlankRuns(s, sep) ==
  IF s = << >> THEN << >>
  ELSE IF IsSpace(Head(s))
  THEN IF Len(s) >= 2 /\ IsSpace(s[2]) THEN ReplaceBlankRuns(Tail(s), sep)
       ELSE <<sep>> \o ReplaceBlankRuns(Tail(s), sep)
  ELSE <<Head(s)>> \o ReplaceBlankRuns(Tail(s), sep)

\* transformFileName(pageName) under the configured slug strategy.
transformFileName(pageName, strategy) ==
  IF strategy = "kebab-case" THEN ReplaceBlankRuns(pageName, "-")
  ELSE IF strategy = "snake_case" THEN ReplaceBlankRuns(pageName, "_")
  ELSE pageName

IllegalCharacters == {"/", "\\", ":", "*", "?", "\"", "<", ">", "|"}

\* sanitizeFileName(name): illegal characters are stripped, runs of blanks
\* collapse to one blank, the result is trimmed.
sanitizeFileName(name) ==
  Trim(ReplaceBlankRuns(SelectSeq(name, LAMBDA c : c \notin IllegalCharacters), " "))

\* The location of the vault root for a workspace folder.
VaultRootUri(root, folder) ==
  IF root = << >> \/ IsBlank(root) THEN folder
  ELSE IF ~isAbsoluteVaultRoot(root) THEN UriJoinPath(folder, <<root>>, FALSE)
  ELSE IF folder.scheme = "file" THEN UriFile(root, FALSE)
  ELSE UriWith(folder, normalizeAbsolutePath(root))

\* createSafeUri(vaultRoot, fileName, extension, workspaceFolder): the flat
\* location vaultRoot/fileName+extension.
createSafeUri(root, name, extension, folder) ==
  UriJoinPath(VaultRootUri(root, folder), <<name \o extension>>, FALSE)

\* The last segment of the path of a location.
UriBasename(u) ==
  LET segs == Segments(u.path)
  IN  IF segs = << >> THEN << >> ELSE segs[Len(segs)]

\* findNoteByTitle: the files under the vault root whose base name is
\* title + extension; the first of them in traversal order is returned.
NotesByTitle(files, title, folder, root, extension) ==
  { n \in files :
      /\ n.scheme = VaultRootUri(root, folder).scheme
      /\ n.authority = VaultRootUri(root, folder).authority
      /\ StartsWith(n.path, VaultRootUri(root, folder).path \o Sep)
      /\ UriBasename(n) = title \o extension }

(* --------------- PreviewPanelProvider: openWikiLink -------------------- *)
\* uri.fsPath: the path, behind "//" and the authority for a file uri that
\* has one.
UriFsPath(u) ==
  IF u.scheme = "file" /\ u.authority # << >>
  THEN <<"/", "/">> \o u.authority \o u.path
  ELSE u.path

\* The file name the link resolves to.
FileNameOfLink ==
  sanitizeFileName(transformFileName(PageNameOf(link), slugStrategy))

\* const uri = PathUtil.createSafeUri(vaultRoot, fileName, extension, workspaceFolder)
FlatUri == createSafeUri(vaultRoot, FileNameOfLink, NoteExtension, workspaceFolder)

\* Variant: the directory of the location itself, scheme and authority kept.
DirUriOfLocation(u) == getParentDirectory(u)

\* const dirUri = vscode.Uri.file(path.dirname(uri.fsPath))
DirUri(u) == UriFile(getParentDirectory([u EXCEPT !.path = UriFsPath(u)]).path, FALSE)

\* The storage a vault can have for the note "a": nothing, the flat note,
\* a note in a subdirectory, both.
VaultLayouts(root, folder) ==
  SUBSET { UriJoinPath(VaultRootUri(root, folder), <<<<"a", ".md">>>>, FALSE),
           UriJoinPath(VaultRootUri(root, folder), <<<<"sub">>, <<"a", ".md">>>>, FALSE) }

WlInit ==
  /\ CcIdle
  /\ TaskIdle
  /\ DnIdle
  /\ LabelIdle
  /\ PnIdle
  /\ dailyNotePath = <<"dailynotes">>
  /\ isWindows = FALSE
  /\ fileName = << >>
  /\ resolved = NoUri
  /\ workspaceFolder \in {WsLocal, WsRemote}
  /\ vaultRoot \in { << >>, <<"vault">>, <<"/", "abs", "/", "vault">> }
  /\ hasWorkspaceFolder \in BOOLEAN
  /\ dailyNoteDir = "/v"
  /\ handler = "idle"
  /\ payload = NoPayload
  /\ scanStart = 0
  /\ posted = << >>
  /\ command = ""
  /\ capture = NoCapture
  /\ truncated = FALSE
  /\ warned = 0
  /\ found = << >>
  /\ link = << >>
  /\ searchSubdirectories \in BOOLEAN
  /\ slugStrategy \in SlugStrategies
  /\ notes \in VaultLayouts(vaultRoot, workspaceFolder)
  /\ madeDirs = {}
  /\ writes = << >>
  /\ opened = << >>
  /\ shownErrors = 0
  /\ walked = FALSE
  /\ openTarget = NoUri
  /\ rejections = 0
  /\ wpc = "idle"

WlUnchanged == UNCHANGED <<taskVars, rvVars, dnVars, sbVars, raw, label, pnVars, ccVars>>

\* An openWikiLink message arrives: a blank link returns, a missing
\* workspace folder shows an error, parseWikiLink throws on an empty page
\* name; otherwise the note is searched for or its flat location is checked.
OpenWikiLinkMessage ==
  /\ wpc = "idle"
  /\ \E l \in Links :
       /\ link' = l
       /\ IF Trim(l) = << >>
          THEN wpc' = "done" /\ UNCHANGED <<shownErrors, walked>>
          ELSE IF ~hasWorkspaceFolder
          THEN wpc' = "done" /\ shownErrors' = shownErrors + 1 /\ UNCHANGED walked
          ELSE IF InvalidLinkSyntax(l)
          THEN wpc' = "thrown" /\ UNCHANGED <<shownErrors, walked>>
          ELSE IF searchSubdirectories
          THEN wpc' = "finding" /\ walked' = TRUE /\ UNCHANGED shownErrors
          ELSE wpc' = "stat" /\ UNCHANGED <<shownErrors, walked>>
  /\ UNCHANGED <<searchSubdirectories, slugStrategy, notes, madeDirs, writes,
                 opened, openTarget, rejections>>
  /\ WlUnchanged

\* await NoteFinder.findNoteByTitle(...) resolves to a match or to nothing.
FindNoteByTitleResolves ==
  /\ wpc = "finding"
  /\ LET matches == NotesByTitle(notes, FileNameOfLink, workspaceFolder,
                                 vaultRoot, NoteExtension)
     IN  IF matches # {}
         THEN \E f \in matches : openTarget' = f /\ wpc' = "show_found"
         ELSE wpc' = "stat" /\ UNCHANGED openTarget
  /\ UNCHANGED <<link, searchSubdirectories, slugStrategy, notes, madeDirs,
                 writes, opened, shownErrors, walked, rejections>>
  /\ WlUnchanged

\* await vscode.workspace.fs.stat(uri) resolves: the file exists.
StatResolves ==
  /\ wpc = "stat"
  /\ FlatUri \in notes
  /\ openTarget' = FlatUri
  /\ wpc' = "show_existing"
  /\ UNCHANGED <<link, searchSubdirectories, slugStrategy, notes, madeDirs,
                 writes, opened, shownErrors, walked, rejections>>
  /\ WlUnchanged

\* stat rejects, the file is not there: the catch falls through to create.
StatRejects ==
  /\ wpc = "stat"
  /\ FlatUri \notin notes
  /\ wpc' = "mkdir"
  /\ UNCHANGED <<link, searchSubdirectories, slugStrategy, notes, madeDirs,
                 writes, opened, shownErrors, walked, openTarget, rejections>>
  /\ WlUnchanged

\* await vscode.window.showTextDocument(...) resolves.
ShowTextDocumentResolves ==
  /\ wpc \in {"show_found", "show_existing", "show_created"}
  /\ opened' = Append(opened, openTarget)
  /\ wpc' = "done"
  /\ UNCHANGED <<link, searchSubdirectories, slugStrategy, notes, madeDirs,
                 writes, shownErrors, walked, openTarget, rejections>>
  /\ WlUnchanged

\* showTextDocument rejects: for a note found by the search the handler
\* throws; for the existing flat note the catch of the stat block falls
\* through to create; for the created note the error is shown.
ShowTextDocumentRejects ==
  /\ wpc \in {"show_found", "show_existing", "show_created"}
  /\ rejections' = rejections + 1
  /\ IF wpc = "show_found" THEN wpc' = "thrown" /\ UNCHANGED shownErrors
     ELSE IF wpc = "show_existing" THEN wpc' = "mkdir" /\ UNCHANGED shownErrors
     ELSE wpc' = "done" /\ shownErrors' = shownErrors + 1
  /\ UNCHANGED <<link, searchSubdirectories, slugStrategy, notes, madeDirs,
                 writes, opened, walked, openTarget>>
  /\ WlUnchanged

\* await vscode.workspace.fs.createDirectory(dirUri) resolves.
MakeDirectoryResolves ==
  /\ wpc = "mkdir"
  /\ madeDirs' = madeDirs \cup {DirUri(FlatUri)}
  /\ wpc' = "write"
  /\ UNCHANGED <<link, searchSubdirectories, slugStrategy, notes, writes,
                 opened, shownErrors, walked, openTarget, rejections>>
  /\ WlUnchanged

\* createDirectory rejects: the error is shown.
MakeDirectoryRejects ==
  /\ wpc = "mkdir"
  /\ rejections' = rejections + 1
  /\ shownErrors' = shownErrors + 1
  /\ wpc' = "done"
  /\ UNCHANGED <<link, searchSubdirectories, slugStrategy, notes, madeDirs,
                 writes, opened, walked, openTarget>>
  /\ WlUnchanged

\* await vscode.workspace.fs.writeFile(uri, data) resolves.
WriteFileResolves ==
  /\ wpc = "write"
  /\ writes' = Append(writes, [uri |-> FlatUri, content |-> Template])
  /\ openTarget' = FlatUri
  /\ wpc' = "show_created"
  /\ UNCHANGED <<link, searchSubdirectories, slugStrategy, notes, madeDirs,
                 opened, shownErrors, walked, rejections>>
  /\ WlUnchanged

\* writeFile rejects: the error is shown.
WriteFileRejects ==
  /\ wpc = "write"
  /\ rejections' = rejections + 1
  /\ shownErrors' = shownErrors + 1
  /\ wpc' = "done"
  /\ UNCHANGED <<link, searchSubdirectories, slugStrategy, notes, madeDirs,
                 writes, opened, walked, openTarget>>
  /\ WlUnchanged

WlNext ==
  \/ OpenWikiLinkMessage
  \/ FindNoteByTitleResolves
  \/ StatResolves
  \/ StatRejects
  \/ ShowTextDocumentResolves
  \/ ShowTextDocumentRejects
  \/ MakeDirectoryResolves
  \/ MakeDirectoryRejects
  \/ WriteFileResolves
  \/ WriteFileRejects

WlSpec == WlInit /\ [][WlNext]_vars


(* ---------------------- openWikiLink: vocabulary ----------------------- *)
\* The handler has returned after resolving a link with a page name in an
\* open workspace folder, and no awaited call was rejected.
LinkHandled ==
  /\ wpc = "done"
  /\ hasWorkspaceFolder
  /\ ~InvalidLinkSyntax(link)
  /\ rejections = 0

\* The notes a recursive search finds for the link.
SearchMatches ==
  NotesByTitle(notes, FileNameOfLink, workspaceFolder, vaultRoot, NoteExtension)

\* The note of the link is found: by the search when it is enabled, or at
\* the flat location.
NoteFound ==
  \/ searchSubdirectories /\ SearchMatches # {}
  \/ FlatUri \in notes

\* The handler is locating the note and no awaited call was rejected.
Locating ==
  /\ wpc \in {"finding", "stat", "show_found", "show_existing"}
  /\ rejections = 0

\* C32: handling openWikiLink creates a note only when it is not found: a
\* note found by the enabled subdirectory search or at the flat location is
\* opened and no directory is created and no file written; otherwise the
\* parent directory of the flat location is created, the template is
\* written exactly once to the flat location and that file is opened;
\* locating creates nothing, and without subdirectory search there is no
\* directory walk.
C32_CreatesOnlyWhenNotFound ==
  /\ LinkHandled =>
       IF NoteFound
       THEN /\ Len(opened) = 1
            /\ opened[1] \in notes
            /\ (searchSubdirectories /\ SearchMatches # {}) => opened[1] \in SearchMatches
            /\ ~(searchSubdirectories /\ SearchMatches # {}) => opened[1] = FlatUri
            /\ madeDirs = {}
            /\ writes = << >>
       ELSE /\ madeDirs = {getParentDirectory(FlatUri)}
            /\ writes = << [uri |-> FlatUri, content |-> Template] >>
            /\ opened = <<FlatUri>>
  /\ Locating => madeDirs = {} /\ writes = << >>
  /\ ~searchSubdirectories => ~walked

\* In a workspace folder of the file scheme the statement holds.
OpenOrCreateOnLocalFolders ==
  workspaceFolder.scheme = "file" => C32_CreatesOnlyWhenNotFound


\* The message handled carried a link whose page name is empty after
\* trimming.
EmptyPageNameHandled == wpc # "idle" /\ PageNameOf(link) = << >>

\* C33: a link whose page name is empty after trimming aborts resolution:
\* the handler never locates a note for it, opens no document, creates no
\* directory and writes no file.
C33_EmptyPageNameAborts ==
  EmptyPageNameHandled =>
    /\ wpc \in {"done", "thrown"}
    /\ opened = << >>
    /\ madeDirs = {}
    /\ writes = << >>
    /\ ~walked

\* C33 witness: the link "|b" was handled in an open workspace folder;
\* parsing failed and nothing happened.
C33_Witness ==
  /\ link = <<"|", "b">>
  /\ hasWorkspaceFolder
  /\ wpc = "thrown"
  /\ opened = << >>
  /\ writes = << >>

\* C33 second input: the link "#b", a heading without a page name.
HeadingOnlyLinkAborted ==
  /\ link = <<"#", "b">>
  /\ hasWorkspaceFolder
  /\ wpc = "thrown"


(* ------------- DailyNoteManager: interleaved appendToSection ----------- *)
MaxInvocations == 2

Invocations == 1..MaxInvocations

\* The content the n-th invocation captures.
ContentOf(n) == <<ToString(n)>>

NotStarted == [ipc |-> "idle", content |-> << >>, text |-> EmptyString,
               templateContent |-> EmptyString]

ConcInit ==
  /\ PvIdle
  /\ TaskIdle
  /\ RvIdle
  /\ SbIdle
  /\ dailyNote \in {NoFile, <<LnTitle, LnQuick, LnTask>>}
  /\ \/ templatePath = << >> /\ templateFile = NoFile
     \/ templatePath = <<"templates", "/", "daily.md">>
        /\ templateFile = <<LnTitle, LnEmpty, LnQuick>>
  /\ templateReadable = TRUE
  /\ directories = {}
  /\ dpc = "idle"
  /\ op = NoOp
  /\ calls = 0
  /\ templateContent = EmptyString
  /\ insertion = NoInsertion
  /\ result = NoResult
  /\ dlog = << >>
  /\ preNote = dailyNote
  /\ texts = << >>
  /\ captured = << >>
  /\ invocations = [n \in Invocations |-> NotStarted]
  /\ templateWrites = << >>
  /\ lastWrite = NoWrite

ConcUnchanged == UNCHANGED <<taskVars, rvVars, sbVars, pvVars>>

\* What an invocation leaves alone in the state of the single-call model.
ConcKept ==
  UNCHANGED <<templatePath, templateFile, templateReadable, dpc, op, calls,
              templateContent, insertion, result, dlog, preNote, texts, captured>>

\* appendToSection is called: ensureDailyNoteExists issues fileWriter.exists.
AppendStarts ==
  \E n \in Invocations :
    /\ invocations[n].ipc = "idle"
    /\ invocations' = [invocations EXCEPT ![n].ipc = "en_exists",
                                          ![n].content = ContentOf(n)]
    /\ UNCHANGED <<dailyNote, directories, templateWrites, lastWrite>>
    /\ ConcKept
    /\ ConcUnchanged

\* fileWriter.exists settles with what the storage holds at that moment.
ExistsSettles ==
  \E n \in Invocations :
    /\ invocations[n].ipc = "en_exists"
    /\ invocations' =
         [invocations EXCEPT ![n].ipc =
            IF ~ShouldCreate(dailyNote # NoFile) THEN "ap_read"
            ELSE IF templatePath = << >> \/ IsBlank(templatePath) THEN "en_mkdir"
            ELSE "en_template"]
    /\ UNCHANGED <<dailyNote, directories, templateWrites, lastWrite>>
    /\ ConcKept
    /\ ConcUnchanged

\* The read of the template settles: its content, or '' from the catch.
TemplateReadSettles ==
  \E n \in Invocations :
    /\ invocations[n].ipc = "en_template"
    /\ invocations' =
         [invocations EXCEPT ![n].ipc = "en_mkdir",
                             ![n].templateContent =
                                IF templateFile # NoFile /\ templateReadable
                                THEN templateFile
                                ELSE OnTemplateReadRejected("NotFound").content]
    /\ UNCHANGED <<dailyNote, directories, templateWrites, lastWrite>>
    /\ ConcKept
    /\ ConcUnchanged

\* fileWriter.createDirectory(dirUri) settles.
CreateDirectorySettles ==
  \E n \in Invocations :
    /\ invocations[n].ipc = "en_mkdir"
    /\ directories' = directories \cup {getParentDirectory(DailyUri)}
    /\ invocations' = [invocations EXCEPT ![n].ipc = "en_write"]
    /\ UNCHANGED <<dailyNote, templateWrites, lastWrite>>
    /\ ConcKept
    /\ ConcUnchanged

\* fileWriter.write(dailyNoteUri, templateContent) settles: the storage
\* holds the template whatever it held before.
TemplateWriteSettles ==
  \E n \in Invocations :
    /\ invocations[n].ipc = "en_write"
    /\ dailyNote' = invocations[n].templateContent
    /\ templateWrites' = Append(templateWrites, [call |-> n, replaced |-> dailyNote])
    /\ lastWrite' = [call |-> n, kind |-> "template"]
    /\ invocations' = [invocations EXCEPT ![n].ipc = "ap_read"]
    /\ UNCHANGED directories
    /\ ConcKept
    /\ ConcUnchanged

\* fileWriter.read(dailyUri) settles with the text of the note.
NoteReadSettles ==
  \E n \in Invocations :
    /\ invocations[n].ipc = "ap_read"
    /\ dailyNote # NoFile
    /\ invocations' = [invocations EXCEPT ![n].ipc = "ap_write",
                                          ![n].text = dailyNote]
    /\ UNCHANGED <<dailyNote, directories, templateWrites, lastWrite>>
    /\ ConcKept
    /\ ConcUnchanged

\* fileWriter.write(dailyUri, newContent) settles and appendToSection
\* returns.
NoteWriteSettles ==
  \E n \in Invocations :
    /\ invocations[n].ipc = "ap_write"
    /\ dailyNote' = AppendInsertion(invocations[n].text, CaptureSectionName,
                                    LineText(invocations[n].content)).newContent
    /\ lastWrite' = [call |-> n, kind |-> "append"]
    /\ invocations' = [invocations EXCEPT ![n].ipc = "done"]
    /\ UNCHANGED <<directories, templateWrites>>
    /\ ConcKept
    /\ ConcUnchanged

ConcNext ==
  \/ AppendStarts
  \/ ExistsSettles
  \/ TemplateReadSettles
  \/ CreateDirectorySettles
  \/ TemplateWriteSettles
  \/ NoteReadSettles
  \/ NoteWriteSettles

ConcSpec == ConcInit /\ [][ConcNext]_vars

(* ------------------ interleaved appendToSection: claims ---------------- *)
\* The note holds the line the n-th invocation captured.
HoldsLineOf(n) ==
  \E i \in 1..Len(dailyNote) : StripTrailingCR(dailyNote[i]) = LineText(ContentOf(n))

\* C34: under any interleaving of two appendToSection invocations on the
\* same daily note the template write of ensureDailyNoteExists never
\* replaces a note that exists at the moment of the write, and right after
\* a template write the line of every completed invocation is still in the
\* note.
C34_TemplateNeverReplacesNote ==
  /\ \A k \in 1..Len(templateWrites) : templateWrites[k].replaced = NoFile
  /\ lastWrite.kind = "template" =>
       \A n \in Invocations : invocations[n].ipc = "done" => HoldsLineOf(n)

\* The line of a completed invocation was lost to the template write of
\* the other one.
CaptureLostToTemplate ==
  /\ invocations[1].ipc = "done"
  /\ lastWrite = [call |-> 2, kind |-> "template"]
  /\ ~HoldsLineOf(1)


(* ------------- QuickCaptureSidebarProvider: a sidebar session ---------- *)
\* The messages of one webview, each handled to its end before the next
\* arrives, over the daily note of the workspace.  The webview sends back in
\* task:complete the text and items of a group of the tasks:update it
\* rendered last (the Complete button of that group).
MaxMessages == 3

SessDir == "/v/2025"
SessNote(scheme) == [scheme |-> scheme, dir |-> SessDir, base |-> "note.md"]

\* The locations of the storage: the note under the local scheme and under
\* the scheme of a non-local workspace.
SessUris == { SessNote("file"), SessNote(WsRemote.scheme) }

\* The daily note of the workspace: getDailyNotePath keeps the scheme of the
\* workspace folder.
SessDaily == SessNote(workspaceFolder.scheme)

SessNotes ==
  { <<LnQuick, LnOther, LnOpenB, LnOpenA>>,
    <<LnQuick, LnTask, LnOpenA>>,
    <<LnTitle, LnOpenA, LnQuick, LnOther, LnOpenA>> }

SessInit ==
  /\ CcIdle
  /\ PvIdle
  /\ DnIdle
  /\ workspaceFolder \in {WsLocal, WsRemote}
  /\ vaultRoot = << >>
  /\ dailyNotePath = <<"dailynotes">>
  /\ isWindows = FALSE
  /\ fileName = << >>
  /\ resolved = NoUri
  /\ \E note \in SessNotes :
       store = [u \in SessUris |-> IF u = SessDaily THEN note ELSE NoFile]
  /\ pending = {}
  /\ pc = "idle"
  /\ items = << >>
  /\ completionDate = ""
  /\ byUri = << >>
  /\ gi = 0
  /\ updated = EmptyString
  /\ lastContent = EmptyString
  /\ uris = << >>
  /\ ci = 0
  /\ filesForCollector = << >>
  /\ outcome = NoOutcome
  /\ groups = << >>
  /\ pre = store
  /\ log = << >>
  /\ hasWorkspaceFolder = TRUE
  /\ dailyNoteDir = SessDir
  /\ handler = "idle"
  /\ payload = NoPayload
  /\ scanStart = 0
  /\ posted = << >>
  /\ command = ""
  /\ capture = NoCapture
  /\ truncated = FALSE
  /\ warned = 0
  /\ found = << >>

SessKept ==
  /\ UNCHANGED <<pending, pc, byUri, gi, updated, lastContent, ci, log>>
  /\ UNCHANGED <<hasWorkspaceFolder, dailyNoteDir, handler, scanStart, truncated, warned>>
  /\ UNCHANGED <<rvVars, dnVars, pvVars, ccVars>>

\* findFiles on the daily note directory: the files stored under the scheme
\* of the workspace.
SessFiles(st) ==
  { u \in SessUris : u.scheme = workspaceFolder.scheme /\ st[u] # NoFile }

\* collectTasksFromUris(files): every file is read and handed to the
\* collector as { uri: uri.fsPath, file: path.basename(uri.fsPath), content }.
SessCollect(st, order) ==
  collectOpenTasksFromFiles(
    [i \in 1..Len(order) |-> [uri |-> FsPath(order[i]),
                              file |-> Basename(FsPath(order[i])),
                              content |-> st[order[i]]]])

\* The groups the webview shows: those of the tasks:update posted last, none
\* before the first one.
RECURSIVE ShownGroups(_)
ShownGroups(msgs) ==
  IF msgs = << >> THEN << >>
  ELSE IF msgs[Len(msgs)].command = "tasks:update" THEN msgs[Len(msgs)].groups
  ELSE ShownGroups(SubSeq(msgs, 1, Len(msgs) - 1))

\* request:tasks, handled to its end: the scan of the daily note directory
\* is posted as tasks:update.
SessRequestTasks ==
  /\ Len(posted) < MaxMessages
  /\ command' = "request:tasks"
  /\ \E order \in Orders(SessFiles(store)) :
       /\ found' = order
       /\ uris' = order
       /\ filesForCollector' = [i \in 1..Len(order) |->
                                  [uri |-> FsPath(order[i]),
                                   file |-> Basename(FsPath(order[i])),
                                   content |-> store[order[i]]]]
       /\ groups' = SessCollect(store, order)
       /\ outcome' = Returned(groups')
       /\ posted' = Append(posted, TasksUpdate(groups'))
  /\ UNCHANGED <<store, pre, items, completionDate, payload, capture>>
  /\ SessKept

\* capture:add, handled to its end: appendToSection inserts the captured
\* line into the daily note and capture:ok is posted.
SessCaptureAdd ==
  /\ Len(posted) < MaxMessages
  /\ command' = "capture:add"
  /\ \E c \in CaptureContents :
       LET ins == AppendInsertion(store[SessDaily], CaptureSectionName, LineText(c))
       IN  /\ capture' = [given |-> TRUE, content |-> c]
           /\ store' = [store EXCEPT ![SessDaily] = ins.newContent]
           /\ posted' = Append(posted, [command |-> "capture:ok",
                                        uri |-> UriToString(SessDaily),
                                        line |-> ReturnedLine(ins)])
  /\ UNCHANGED <<pre, items, completionDate, payload, uris, filesForCollector,
                 groups, outcome, found>>
  /\ SessKept

\* completeTasks(parsedItems, today) resolves: no bucket names a file that
\* cannot be read or a line beyond the end of its file.
SessCompletes(its, st, date) ==
  LET map == GroupByUri(<< >>, its)
  IN  \A b \in 1..Len(map) :
        /\ st[map[b].uri] # NoFile
        /\ ApplyCompletions(st[map[b].uri], SortedLines(map[b].lines), date).ok

\* task:complete, handled to its end, for the Complete button of a group the
\* webview shows: the items are parsed, completeTasks rewrites the files and
\* the fresh scan is posted; if completeTasks throws, the error is posted.
SessTaskComplete ==
  /\ Len(posted) < MaxMessages
  /\ command' = "task:complete"
  /\ \E g \in 1..Len(ShownGroups(posted)), today \in Dates :
       LET shown == ShownGroups(posted)[g]
           received == [given |-> TRUE, text |-> shown.text,
                        items |-> [i \in 1..Len(shown.items) |->
                                     [uri |-> shown.items[i].uri,
                                      line |-> shown.items[i].line]],
                        lineKinds |-> [i \in 1..Len(shown.items) |-> "number"]]
           parsedItems == [i \in 1..Len(received.items) |->
                             [uri |-> UriFileOf(received.items[i].uri),
                              line |-> NumberOfLine(received, i)]]
       IN  /\ payload' = received
           /\ items' = parsedItems
           /\ completionDate' = today
           /\ pre' = store
           /\ store' = StoreAfterCompleteTasks(parsedItems, store, today)
           /\ IF SessCompletes(parsedItems, store, today)
              THEN \E order \in Orders(SessFiles(store')) :
                     /\ found' = order
                     /\ uris' = order
                     /\ filesForCollector' = [i \in 1..Len(order) |->
                                                [uri |-> FsPath(order[i]),
                                                 file |-> Basename(FsPath(order[i])),
                                                 content |-> store'[order[i]]]]
                     /\ groups' = SessCollect(store', order)
                     /\ outcome' = Returned(groups')
                     /\ posted' = Append(posted, TasksUpdate(groups'))
              ELSE /\ outcome' = Thrown("completeTasks")
                   /\ posted' = Append(posted, ErrorMessage("completeTasks"))
                   /\ UNCHANGED <<found, uris, filesForCollector, groups>>
  /\ UNCHANGED capture
  /\ SessKept

SessNext ==
  \/ SessRequestTasks
  \/ SessCaptureAdd
  \/ SessTaskComplete

SessSpec == SessInit /\ [][SessNext]_vars

\* The message handled last was a task:complete.
SessCompleted == command = "task:complete"

\* Line k of location u differs from what it was when the task:complete
\* arrived.
SessModified(u, k) ==
  /\ k \in 1..Len(pre[u])
  /\ k \in 1..Len(store[u])
  /\ store[u][k] # pre[u][k]

\* C35: task:complete modifies only lines that, at the time of the write,
\* are open checklist lines whose text equals the text of the payload, also
\* when a capture:add has inserted a line into the note since the
\* tasks:update that produced the items.
C35_CompletesOnlyMatchingOpenLines ==
  SessCompleted =>
    \A u \in SessUris :
      \A k \in 1..Len(pre[u]) :
        SessModified(u, k) =>
          /\ IsOpenTaskLine(pre[u][k])
          /\ TaskText(pre[u][k]) = payload.text

\* A capture between the scan and the completion has shifted the lines: the
\* completion of "alpha" has checked the open task "beta".
StaleItemCompletesOtherTask ==
  /\ SessCompleted
  /\ payload.text = <<"alpha">>
  /\ \E k \in 1..Len(pre[SessDaily]) :
       /\ pre[SessDaily][k] = LnOpenB
       /\ SessModified(SessDaily, k)


(* ------------------ TaskService: duplicate references ------------------ *)
\* The batch with every reference that repeats an earlier (file, line)
\* removed.
RECURSIVE WithoutDuplicates(_)
WithoutDuplicates(its) ==
  IF its = << >> THEN << >>
  ELSE LET front == SubSeq(its, 1, Len(its) - 1)
           last == its[Len(its)]
       IN  IF \E i \in 1..Len(front) : front[i] = last
           THEN WithoutDuplicates(front)
           ELSE Append(WithoutDuplicates(front), last)

HasDuplicates(its) == WithoutDuplicates(its) # its

\* How many times the completion tag of the date occurs in the line.
TagCount(line, date) ==
  Cardinality({ i \in 1..(Len(line) - Len(CompletionTag(date)) + 1) :
                  SubSeq(line, i, i + Len(CompletionTag(date)) - 1) = CompletionTag(date) })

\* C36: completeTasks is insensitive to duplicate references: a batch that
\* names a (file, line) more than once leaves the files as the batch without
\* the duplicates does, and no line has received the completion tag more
\* than once in the call.
C36_DuplicatesIgnored ==
  CtSucceeded =>
    /\ store = StoreAfterCompleteTasks(WithoutDuplicates(items), pre, completionDate)
    /\ \A u \in Uris :
         \A k \in 1..Len(store[u]) :
           k <= Len(pre[u]) =>
             TagCount(store[u][k], completionDate)
               <= TagCount(pre[u][k], completionDate) + 1

\* A batch that names one line twice has succeeded and the line carries the
\* completion tag twice.
DuplicateTaggedTwice ==
  /\ CtSucceeded
  /\ HasDuplicates(items)
  /\ \E u \in Uris :
       \E k \in 1..Len(store[u]) :
         /\ k <= Len(pre[u])
         /\ TagCount(pre[u][k], completionDate) = 0
         /\ TagCount(store[u][k], completionDate) = 2


(* ---------------- sidebar session: item references --------------------- *)
\* The location the scan read the occurrence of a payload item from: the
\* file of the workspace whose fsPath the item carries.
ReadFrom(item) ==
  CHOOSE u \in SessFiles(pre) : FsPath(u) = item.uri

\* The distinct locations the items handed to completeTasks name.
ItemLocations == { items[i].uri : i \in 1..Len(items) }

\* C37: an item returned by collectTasksFromUris and sent back unchanged in
\* a task:complete payload makes completeTasks read and write the location
\* (scheme and path) its occurrence was read from, for local and non-local
\* workspace schemes, and the items of one file share one bucket.
C37_ItemRefsRoundTrip ==
  SessCompleted =>
    /\ \A i \in 1..Len(items) : items[i].uri = ReadFrom(payload.items[i])
    /\ Len(GroupByUri(<< >>, items)) = Cardinality(ItemLocations)

\* In a workspace of a non-local scheme the items of the scan have come back
\* and completeTasks was handed locations of the local scheme.
RemoteItemsCompletedLocally ==
  /\ SessCompleted
  /\ workspaceFolder.scheme # "file"
  /\ items # << >>
  /\ \A i \in 1..Len(items) :
       /\ items[i].uri.scheme = "file"
       /\ ReadFrom(payload.items[i]).scheme = workspaceFolder.scheme
       /\ FsPath(items[i].uri) = FsPath(ReadFrom(payload.items[i]))


\* In a workspace of the local scheme the references do round-trip.
LocalItemRefsRoundTrip ==
  (SessCompleted /\ workspaceFolder.scheme = "file") =>
    /\ \A i \in 1..Len(items) : items[i].uri = ReadFrom(payload.items[i])
    /\ Len(GroupByUri(<< >>, items)) = Cardinality(ItemLocations)


(* --------------- sidebar: one response for each message ---------------- *)
\* Variant: a command outside the switch is answered with an error.
OtherCommandReplyError == <<ErrorMessage("Unknown command")>>

\* The switch has no default case: for any other command the handler posts
\* nothing.
OtherCommandReply == << >>

\* A message arrives whose command is none of capture:add, request:tasks
\* and task:complete: no case of the switch matches and the handler returns.
OtherMessage ==
  /\ handler = "idle"
  /\ pc = "idle"
  /\ dpc = "idle"
  /\ \E c \in {"capture:remove", "undefined"} : command' = c
  /\ posted' = posted \o OtherCommandReply
  /\ handler' = "done"
  /\ UNCHANGED <<hasWorkspaceFolder, dailyNoteDir, payload, scanStart, capture,
                 truncated, warned, found>>
  /\ UNCHANGED <<taskVars, rvVars, dnVars, pvVars, ccVars>>

\* The handler of one message of any command.
MsgNext ==
  \/ SbNext
  \/ RequestTasksMessage
  \/ RequestTasksPosts
  \/ OtherMessage

MsgSpec == SbInit /\ [][MsgNext]_vars

\* The commands the response to a command may carry.
ResponsesTo(c) ==
  IF c = "capture:add" THEN {"capture:ok", "error"}
  ELSE IF c = "request:tasks" THEN {"tasks:update"}
  ELSE IF c = "task:complete" THEN {"tasks:update", "error"}
  ELSE {}

\* C38: for a capture:add, request:tasks or task:complete message the
\* handler posts exactly one response (capture:ok or error; tasks:update;
\* tasks:update or error) on every path, validation failures and exceptions
\* included: nothing before it ends, one message of the command's kind when
\* it has ended; for any other command it posts nothing.
C38_OneResponsePerMessage ==
  /\ handler # "done" => posted = << >>
  /\ handler = "done" =>
       IF ResponsesTo(command) = {} THEN posted = << >>
       ELSE /\ Len(posted) = 1
            /\ posted[1].command \in ResponsesTo(command)

\* A task:complete whose completeTasks or scan threw has been answered with
\* the one error message.
C38_Witness ==
  /\ handler = "done"
  /\ command = "task:complete"
  /\ ~InvalidPayload(payload)
  /\ outcome.status = "error"
  /\ Len(posted) = 1
  /\ posted[1].command = "error"

\* A message of another command has been handled and nothing was posted.
OtherCommandUnanswered ==
  /\ handler = "done"
  /\ command = "capture:remove"
  /\ posted = << >>


(* --------------- DailyNoteManager: the note in its directory ----------- *)
\* The configurations of the daily note directory: dailyNotePath may be
\* empty too.
ParentInit ==
  /\ CcIdle
  /\ PvIdle
  /\ TaskIdle
  /\ DnIdle
  /\ SbIdle
  /\ workspaceFolder \in WorkspaceFolders
  /\ vaultRoot \in VaultRoots
  /\ dailyNotePath \in DailyNotePaths \cup { << >> }
  /\ isWindows \in BOOLEAN
  /\ fileName = << >>
  /\ resolved = NoUri

ParentSpec == ParentInit /\ [][ResolveNext]_vars

\* The path has an empty segment: two separators in a row, or a separator
\* at its end (the root path "/" has no segment at all).
HasEmptySegment(p) ==
  \/ \E i \in 1..(Len(p) - 1) : p[i] = "/" /\ p[i + 1] = "/"
  \/ Len(p) > 1 /\ p[Len(p)] = "/"

\* getDailyNoteDirectory(workspaceFolder) under the configuration.
DailyNoteDirectory ==
  resolveVaultUri(workspaceFolder, vaultRoot, dailyNotePath, << >>, isWindows)

NotePathResolved == resolved # NoUri /\ fileName # << >>
DirectoryResolved == resolved # NoUri /\ fileName = << >>

\* C39: for every configuration and date the parent directory of
\* getDailyNotePath(workspace, date) is exactly
\* getDailyNoteDirectory(workspace), and neither location has an empty path
\* segment.
C39_NoteLiesInDailyNoteDirectory ==
  /\ NotePathResolved =>
       /\ getParentDirectory(resolved) = DailyNoteDirectory
       /\ ~HasEmptySegment(resolved.path)
  /\ DirectoryResolved => ~HasEmptySegment(resolved.path)

\* The parent of the note is the directory in every configuration.
ParentIsDailyNoteDirectory ==
  NotePathResolved => getParentDirectory(resolved) = DailyNoteDirectory

\* An absolute vault root and an empty dailyNotePath: the note path has two
\* separators in a row.
EmptySegmentInNotePath ==
  /\ NotePathResolved
  /\ vaultRoot = <<"/", "abs", "/", "vault">>
  /\ dailyNotePath = << >>
  /\ HasEmptySegment(resolved.path)


(* ---------------- PreviewPanelProvider: panel lifecycle ---------------- *)
\* How many panels the provider may create in one behaviour.
MaxPanels == 2

MarkdownDocs == {"a.md", "b.md"}
Documents == MarkdownDocs \cup {"c.txt"}

\* document.languageId === 'markdown'
IsMarkdown(d) == d \in MarkdownDocs

PnInit ==
  /\ CcIdle
  /\ TaskIdle
  /\ RvIdle
  /\ DnIdle
  /\ SbIdle
  /\ LabelIdle
  /\ WlIdle
  /\ panel = 0
  /\ openPanels = {}
  /\ disposables = << >>
  /\ editorSubs = 0
  /\ documentSubs = 0
  /\ activeDocumentUri = NoDoc
  /\ activeEditor \in Documents \cup {NoDoc}
  /\ panelsCreated = 0
  /\ refreshes = 0
  /\ lastEvent = ""

PnKept == UNCHANGED <<taskVars, rvVars, dnVars, sbVars, raw, label, wlVars, ccVars>>

\* The subscriptions show() registers for a new panel, in the order they
\* enter this.disposables.
PanelSubscriptions ==
  <<"onDidDispose", "onDidReceiveMessage", "onDidChangeActiveTextEditor",
    "onDidChangeTextDocument">>

\* getActiveMarkdownDocument(): the document of the active editor if it is
\* a Markdown document, NoDoc else.
getActiveMarkdownDocument(editor) == IF IsMarkdown(editor) THEN editor ELSE NoDoc

\* refresh() with a panel: this.activeDocumentUri after it.
AfterRefresh(adu, editor) ==
  IF getActiveMarkdownDocument(editor) = NoDoc THEN adu
  ELSE getActiveMarkdownDocument(editor)

\* The listeners of onDidChangeTextDocument run one after another for the
\* changed document d: n listeners are left, adu is this.activeDocumentUri,
\* done the number of refresh() calls that rendered so far.
RECURSIVE DocumentListeners(_, _, _, _, _)
DocumentListeners(n, d, adu, editor, done) ==
  IF n = 0 THEN [refreshes |-> done, adu |-> adu]
  ELSE IF adu = NoDoc \/ d # adu
  THEN DocumentListeners(n - 1, d, adu, editor, done)
  ELSE DocumentListeners(n - 1, d, AfterRefresh(adu, editor), editor,
                         IF panel # 0 THEN done + 1 ELSE done)

\* show(params): without a Markdown document an information message is
\* shown; else the panel is created with its four subscriptions, or the
\* existing panel is revealed, and refresh() renders.
Show ==
  /\ \E given \in Documents \cup {NoDoc} :
       LET document == IF given # NoDoc THEN given ELSE activeEditor
       IN  IF document = NoDoc \/ ~IsMarkdown(document)
           THEN /\ refreshes' = 0
                /\ UNCHANGED <<panel, openPanels, disposables, editorSubs,
                               documentSubs, activeDocumentUri, panelsCreated>>
           ELSE /\ panel = 0 => panelsCreated < MaxPanels
                /\ IF panel = 0
                   THEN /\ panel' = panelsCreated + 1
                        /\ openPanels' = openPanels \cup {panelsCreated + 1}
                        /\ panelsCreated' = panelsCreated + 1
                        /\ disposables' = disposables \o PanelSubscriptions
                        /\ editorSubs' = editorSubs + 1
                        /\ documentSubs' = documentSubs + 1
                   ELSE UNCHANGED <<panel, openPanels, panelsCreated, disposables,
                                    editorSubs, documentSubs>>
                /\ activeDocumentUri' = AfterRefresh(document, activeEditor)
                /\ refreshes' = 1
  /\ lastEvent' = "show"
  /\ UNCHANGED activeEditor
  /\ PnKept

\* The user closes the panel: the editor disposes it and the provider's
\* onDidDispose listener clears panel and activeDocumentUri.
PanelClosedByUser ==
  /\ panel # 0
  /\ openPanels' = openPanels \ {panel}
  /\ panel' = 0
  /\ activeDocumentUri' = NoDoc
  /\ refreshes' = 0
  /\ lastEvent' = "closed"
  /\ UNCHANGED <<disposables, editorSubs, documentSubs, activeEditor, panelsCreated>>
  /\ PnKept

\* dispose(): every subscription in this.disposables is disposed, then the
\* panel, if there is one.
Dispose ==
  /\ disposables' = << >>
  /\ editorSubs' = editorSubs - CountIn(disposables, "onDidChangeActiveTextEditor")
  /\ documentSubs' = documentSubs - CountIn(disposables, "onDidChangeTextDocument")
  /\ openPanels' = openPanels \ {panel}
  /\ panel' = 0
  /\ refreshes' = 0
  /\ lastEvent' = "dispose"
  /\ UNCHANGED <<activeDocumentUri, activeEditor, panelsCreated>>
  /\ PnKept

\* A document changes: every live onDidChangeTextDocument listener of the
\* provider runs.
DocumentChanged ==
  /\ \E d \in Documents :
       LET run == DocumentListeners(documentSubs, d, activeDocumentUri, activeEditor, 0)
       IN  /\ refreshes' = run.refreshes
           /\ activeDocumentUri' = run.adu
  /\ lastEvent' = "documentChange"
  /\ UNCHANGED <<panel, openPanels, disposables, editorSubs, documentSubs,
                 activeEditor, panelsCreated>>
  /\ PnKept

\* The active editor changes: every live onDidChangeActiveTextEditor
\* listener of the provider calls refresh(), which returns at once without a
\* panel.
ActiveEditorChanged ==
  /\ \E e \in Documents \cup {NoDoc} :
       /\ e # activeEditor
       /\ activeEditor' = e
       /\ IF panel # 0 /\ editorSubs > 0
          THEN /\ refreshes' = editorSubs
               /\ activeDocumentUri' = AfterRefresh(activeDocumentUri, e)
          ELSE /\ refreshes' = 0
               /\ UNCHANGED activeDocumentUri
  /\ lastEvent' = "editorChange"
  /\ UNCHANGED <<panel, openPanels, disposables, editorSubs, documentSubs, panelsCreated>>
  /\ PnKept

PnNext ==
  \/ Show
  \/ PanelClosedByUser
  \/ Dispose
  \/ DocumentChanged
  \/ ActiveEditorChanged

PnSpec == PnInit /\ [][PnNext]_vars

\* C40: across show, panel-closed-by-user and dispose events at most one
\* preview panel exists, the provider holds at most one live
\* active-editor-change and one live document-change subscription, one
\* document change triggers at most one refresh, and after dispose() there
\* is no panel and no live subscription.
C40_OnePanelOneSubscription ==
  /\ Cardinality(openPanels) <= 1
  /\ editorSubs <= 1
  /\ documentSubs <= 1
  /\ lastEvent = "documentChange" => refreshes <= 1
  /\ lastEvent = "dispose" =>
       /\ panel = 0
       /\ openPanels = {}
       /\ editorSubs = 0
       /\ documentSubs = 0

\* At most one panel exists, and dispose() leaves no panel and no live
\* subscription.
OnePanelAndCleanDispose ==
  /\ Cardinality(openPanels) <= 1
  /\ panel # 0 => openPanels = {panel}
  /\ lastEvent = "dispose" =>
       /\ panel = 0
       /\ openPanels = {}
       /\ editorSubs = 0
       /\ documentSubs = 0
       /\ disposables = << >>

\* The panel was closed and shown again: one change of the previewed
\* document has rendered the preview twice.
DocumentChangeRefreshesTwice ==
  /\ lastEvent = "documentChange"
  /\ panelsCreated = 2
  /\ Cardinality(openPanels) = 1
  /\ documentSubs = 2
  /\ refreshes = 2

====
